---- MODULE Spec2Model ----
(***************************************************************************)
(* CPF v1: strict line-oriented parser, formatter, validator, decoder and  *)
(* encoder of victorstack-ai/cpf.  Strings are sequences of one-character  *)
(* strings; a text is one such sequence with "\n" between its lines.       *)
(***************************************************************************)
EXTENDS Integers, Sequences, FiniteSets, TLC

VARIABLES
    text,          \* the CPF text handed to parse, validate and decode
    done,          \* the operations that have returned
    parse_result,  \* what parse returned or raised
    issues,        \* what validate returned
    doc,           \* the Document handed to format_document and decode_ast
    custom,        \* the caller's custom abbreviation table
    decoded,       \* what decode or decode_ast returned
    english,       \* the markdown text handed to encode
    opts,          \* encode's keyword arguments and the clock it reads
    tables,        \* the dict objects: the built-in tables, the caller's, the locals
    args           \* the (header, lines) handed to classify_section

vars == <<text, done, parse_result, issues, doc, custom, decoded, english, opts, tables, args>>

(***************************************************************************)
(* Bounds of the model.                                                    *)
(***************************************************************************)
MaxBody == 4

MaxBlocks == 2

MaxBlockLines == 2

(***************************************************************************)
(* spec.py                                                                 *)
(***************************************************************************)
NL == "\n"

VERSION == <<"v", "1">>

FORMAT_HEADER == <<"C", "P", "F", "|">> \o VERSION

METADATA_PREFIX == <<"M", "|">>

SECTION_SEPARATOR == <<"-", "-", "-">>

SIGILS == {"R", "P", "N", "S", "T", "X", "Z", "C", "B"}

HEREDOC_OPEN == <<"<", "<">>

HEREDOC_CLOSE == <<">", ">">>

UPPER == {"A", "B", "C", "D", "E", "F", "G", "H", "I", "J", "K", "L", "M",
          "N", "O", "P", "Q", "R", "S", "T", "U", "V", "W", "X", "Y", "Z"}

(***************************************************************************)
(* Python str primitives used by the sources.                              *)
(***************************************************************************)
IsSpace(c) == c \in {" ", "\t", "\n", "\r"}

RECURSIVE LStrip(_)
LStrip(s) ==
    IF s # <<>> /\ IsSpace(Head(s)) THEN LStrip(Tail(s)) ELSE s

RECURSIVE RStrip(_)
RStrip(s) ==
    IF s # <<>> /\ IsSpace(s[Len(s)]) THEN RStrip(SubSeq(s, 1, Len(s) - 1)) ELSE s

Strip(s) == LStrip(RStrip(s))

Min(S) == CHOOSE x \in S : \A y \in S : x <= y

(* the sequence f[1], ..., f[n] of a function f on 1..n *)
SeqOf(f) == SubSeq(f, 1, Len(f))

StartsWith(s, p) == Len(s) >= Len(p) /\ SubSeq(s, 1, Len(p)) = p

RECURSIVE SplitLinesFrom(_, _)
SplitLinesFrom(t, i) ==
    LET ends == {j \in i..Len(t) : t[j] = NL}
    IN  IF i > Len(t) THEN <<>>
        ELSE IF ends = {} THEN <<SubSeq(t, i, Len(t))>>
        ELSE <<SubSeq(t, i, Min(ends) - 1)>> \o SplitLinesFrom(t, Min(ends) + 1)

SplitLines(t) == SplitLinesFrom(t, 1)

RECURSIVE SplitFrom(_, _, _)
SplitFrom(s, sep, i) ==
    LET hits == {j \in i..Len(s) : s[j] = sep}
    IN  IF hits = {} THEN <<SubSeq(s, i, Len(s))>>
        ELSE <<SubSeq(s, i, Min(hits) - 1)>> \o SplitFrom(s, sep, Min(hits) + 1)

Split(s, sep) == SplitFrom(s, sep, 1)

(* BLOCK_RE_PATTERN  ^@([A-Z]):(.+)$  applied to an already stripped line *)
BlockMatch(line) ==
    /\ Len(line) >= 4
    /\ line[1] = "@"
    /\ line[2] \in UPPER
    /\ line[3] = ":"

BlockSigil(line) == line[2]

(* mutant: the id is taken as the pattern's second group gives it *)
BlockId_Raw(line) == SubSeq(line, 4, Len(line))

BlockId(line) == Strip(SubSeq(line, 4, Len(line)))

(***************************************************************************)
(* ast_nodes.py                                                            *)
(***************************************************************************)
Metadata(doc_id, title, source, timestamp) ==
    [doc_id |-> doc_id, title |-> title, source |-> source, timestamp |-> timestamp]

Block(sigil, block_id, lines, is_heredoc) ==
    [sigil |-> sigil, block_id |-> block_id, lines |-> lines, is_heredoc |-> is_heredoc]

CPFDocument(version, metadata, blocks) ==
    [version |-> version, metadata |-> metadata, blocks |-> blocks]

NoMetadata == Metadata(<<>>, <<>>, <<>>, <<>>)

NoDocument == CPFDocument(<<>>, NoMetadata, <<>>)

(***************************************************************************)
(* parser.py                                                               *)
(***************************************************************************)
ParseError(line_num, message, arg) ==
    [ok |-> FALSE, line_num |-> line_num, message |-> message, arg |-> arg,
     doc |-> NoDocument]

ParseOk(d) ==
    [ok |-> TRUE, line_num |-> 0, message |-> "", arg |-> "", doc |-> d]

(* mutant: the error carries the 0-indexed position of the metadata line *)
parse_metadata_ZeroIndexed(line, line_num) ==
    LET parts == Split(SubSeq(line, Len(METADATA_PREFIX) + 1, Len(line)), "|")
    IN  IF Len(parts) < 4
        THEN ParseError(line_num - 1, "Metadata needs 4 pipe-separated fields", "")
        ELSE ParseOk(CPFDocument(VERSION,
                 Metadata(Strip(parts[1]), Strip(parts[2]), Strip(parts[3]),
                          Strip(parts[4])), <<>>))

parse_metadata(line, line_num) ==
    LET parts == Split(SubSeq(line, Len(METADATA_PREFIX) + 1, Len(line)), "|")
    IN  IF Len(parts) < 4
        THEN ParseError(line_num, "Metadata needs 4 pipe-separated fields", "")
        ELSE ParseOk(CPFDocument(VERSION,
                 Metadata(Strip(parts[1]), Strip(parts[2]), Strip(parts[3]),
                          Strip(parts[4])), <<>>))

(* _parse_heredoc: lines and start are 0-indexed positions as in the source *)
RECURSIVE parse_heredoc_loop(_, _, _, _)
parse_heredoc_loop(lines, start, i, content) ==
    IF i < Len(lines)
    THEN IF Strip(lines[i + 1]) = HEREDOC_CLOSE
         THEN [ok |-> TRUE, i |-> i + 1, content |-> content,
               err |-> ParseOk(NoDocument)]
         ELSE parse_heredoc_loop(lines, start, i + 1,
                                 Append(content, RStrip(lines[i + 1])))
    ELSE [ok |-> FALSE, i |-> i, content |-> <<>>,
          err |-> ParseError(start + 1, "Unclosed heredoc block", "")]

(* mutant: collection starts on the open marker instead of the line after it *)
parse_heredoc_FromOpen(lines, start) ==
    IF start >= Len(lines) \/ Strip(lines[start + 1]) # HEREDOC_OPEN
    THEN [ok |-> FALSE, i |-> start, content |-> <<>>,
          err |-> ParseError(start + 1, "Expected heredoc open", "")]
    ELSE parse_heredoc_loop(lines, start, start, <<>>)

parse_heredoc(lines, start) ==
    IF start >= Len(lines) \/ Strip(lines[start + 1]) # HEREDOC_OPEN
    THEN [ok |-> FALSE, i |-> start, content |-> <<>>,
          err |-> ParseError(start + 1, "Expected heredoc open", "")]
    ELSE parse_heredoc_loop(lines, start, start + 1, <<>>)

(* mutant: only headers with a known sigil end the content of a block *)
next_block_starts_KnownOnly(content_line) ==
    /\ BlockMatch(Strip(content_line))
    /\ BlockSigil(Strip(content_line)) \in SIGILS

(* line 87: does the next block start on this content line? *)
next_block_starts(content_line) == BlockMatch(Strip(content_line))

(* inner while of parse, lines 84-94: content of a non-blob block *)
RECURSIVE parse_content(_, _, _)
parse_content(lines, i, blines) ==
    IF i < Len(lines)
    THEN IF next_block_starts(lines[i + 1])
         THEN [i |-> i, lines |-> blines]
         ELSE IF blines = <<>> /\ Strip(lines[i + 1]) = <<>>
              THEN parse_content(lines, i + 1, blines)
              ELSE parse_content(lines, i + 1, Append(blines, RStrip(lines[i + 1])))
    ELSE [i |-> i, lines |-> blines]

(* mutant: only one trailing empty line is removed *)
pop_trailing_empty_Once(blines) ==
    IF blines # <<>> /\ Strip(blines[Len(blines)]) = <<>>
    THEN SubSeq(blines, 1, Len(blines) - 1)
    ELSE blines

(* lines 97-98: strip trailing empty lines from block *)
RECURSIVE pop_trailing_empty(_)
pop_trailing_empty(blines) ==
    IF blines # <<>> /\ Strip(blines[Len(blines)]) = <<>>
    THEN pop_trailing_empty(SubSeq(blines, 1, Len(blines) - 1))
    ELSE blines

(* outer while of parse, lines 56-103 *)
RECURSIVE parse_blocks(_, _, _, _)

(* mutant: a line with content outside every block is an error *)
parse_blocks_OrphanRaises(lines, i, metadata, blocks) ==
    IF i >= Len(lines)
    THEN ParseOk(CPFDocument(VERSION, metadata, blocks))
    ELSE LET line == Strip(lines[i + 1])
         IN  IF line = <<>> THEN parse_blocks(lines, i + 1, metadata, blocks)
             ELSE IF BlockMatch(line)
             THEN LET sigil == BlockSigil(line)
                      block_id == BlockId(line)
                  IN  IF sigil \notin SIGILS
                      THEN ParseError(i + 1, "Unknown sigil", sigil)
                      ELSE IF sigil = "B"
                      THEN LET h == parse_heredoc(lines, i + 1)
                           IN  IF h.ok
                               THEN parse_blocks(lines, h.i, metadata,
                                        Append(blocks, Block(sigil, block_id, h.content, TRUE)))
                               ELSE h.err
                      ELSE LET c == parse_content(lines, i + 1, <<>>)
                           IN  parse_blocks(lines, c.i, metadata,
                                   Append(blocks, Block(sigil, block_id,
                                                        pop_trailing_empty(c.lines), FALSE)))
             ELSE ParseError(i + 1, "Unexpected line", "")

parse_blocks(lines, i, metadata, blocks) ==
    IF i >= Len(lines)
    THEN ParseOk(CPFDocument(VERSION, metadata, blocks))
    ELSE LET line == Strip(lines[i + 1])
         IN  IF line = <<>> THEN parse_blocks(lines, i + 1, metadata, blocks)
             ELSE IF BlockMatch(line)
             THEN LET sigil == BlockSigil(line)
                      block_id == BlockId(line)
                  IN  IF sigil \notin SIGILS
                      THEN ParseError(i + 1, "Unknown sigil", sigil)
                      ELSE IF sigil = "B"
                      THEN LET h == parse_heredoc(lines, i + 1)
                           IN  IF h.ok
                               THEN parse_blocks(lines, h.i, metadata,
                                        Append(blocks, Block(sigil, block_id, h.content, TRUE)))
                               ELSE h.err
                      ELSE LET c == parse_content(lines, i + 1, <<>>)
                           IN  parse_blocks(lines, c.i, metadata,
                                   Append(blocks, Block(sigil, block_id,
                                                        pop_trailing_empty(c.lines), FALSE)))
             ELSE parse_blocks(lines, i + 1, metadata, blocks)

parse(t) ==
    LET lines == SplitLines(t)
    IN  IF lines = <<>> THEN ParseError(1, "Empty document", "")
        ELSE IF Strip(lines[1]) # FORMAT_HEADER
        THEN ParseError(1, "Expected format header", "")
        ELSE IF Len(lines) < 2 \/ ~StartsWith(Strip(lines[2]), METADATA_PREFIX)
        THEN ParseError(2, "Expected metadata line", "")
        ELSE LET m == parse_metadata(Strip(lines[2]), 2)
             IN  IF ~m.ok THEN m
                 ELSE IF Len(lines) < 3 \/ Strip(lines[3]) # SECTION_SEPARATOR
                 THEN ParseError(3, "Expected separator", "")
                 ELSE parse_blocks(lines, 3, m.doc.metadata, <<>>)

(***************************************************************************)
(* validator.py                                                            *)
(***************************************************************************)
ValidationError(line, message, arg, severity) ==
    [line |-> line, message |-> message, arg |-> arg, severity |-> severity]

(* mutant: the duplicate issue is built with the default severity *)
check_header_DefaultSeverity(errors, i, sigil, block_id, block_ids) ==
    LET e1 == IF sigil \notin SIGILS
              THEN Append(errors, ValidationError(i + 1, "Unknown sigil", sigil, "error"))
              ELSE errors
    IN  IF block_id = <<>>
        THEN Append(e1, ValidationError(i + 1, "Block ID is empty", "", "error"))
        ELSE IF block_id \in block_ids
        THEN Append(e1, ValidationError(i + 1, "Duplicate block ID", block_id, "error"))
        ELSE e1

(* lines 94-106: sigil and block id checks on a block header at 0-indexed i *)
check_header(errors, i, sigil, block_id, block_ids) ==
    LET e1 == IF sigil \notin SIGILS
              THEN Append(errors, ValidationError(i + 1, "Unknown sigil", sigil, "error"))
              ELSE errors
    IN  IF block_id = <<>>
        THEN Append(e1, ValidationError(i + 1, "Block ID is empty", "", "error"))
        ELSE IF block_id \in block_ids
        THEN Append(e1, ValidationError(i + 1, "Duplicate block ID", block_id, "warning"))
        ELSE e1

(* mutant: the open marker is looked for on the header line itself *)
heredoc_follows_SameLine(lines, i) ==
    i + 1 < Len(lines) /\ Strip(lines[i + 1]) = HEREDOC_OPEN

(* line 110: is the blob header at 0-indexed i followed by the open marker? *)
heredoc_follows(lines, i) ==
    i + 1 < Len(lines) /\ Strip(lines[i + 2]) = HEREDOC_OPEN

(* while loop of validate, lines 76-120, and the final check 122-126 *)
RECURSIVE validate_blocks(_, _, _, _, _, _)
validate_blocks(lines, i, block_ids, in_heredoc, heredoc_start, errors) ==
    IF i >= Len(lines)
    THEN IF in_heredoc
         THEN Append(errors, ValidationError(heredoc_start + 1,
                         "Unclosed heredoc block", "", "error"))
         ELSE errors
    ELSE LET line == Strip(lines[i + 1])
         IN  IF in_heredoc
             THEN validate_blocks(lines, i + 1, block_ids,
                      line # HEREDOC_CLOSE, heredoc_start, errors)
             ELSE IF line = <<>>
             THEN validate_blocks(lines, i + 1, block_ids, FALSE, heredoc_start, errors)
             ELSE IF BlockMatch(line)
             THEN LET sigil == BlockSigil(line)
                      block_id == BlockId(line)
                      e2 == check_header(errors, i, sigil, block_id, block_ids)
                      ids == block_ids \cup {block_id}
                  IN  IF sigil = "B"
                      THEN IF heredoc_follows(lines, i)
                           THEN validate_blocks(lines, i + 2, ids, TRUE, i + 1, e2)
                           ELSE validate_blocks(lines, i + 1, ids, FALSE, heredoc_start,
                                    Append(e2, ValidationError(i + 1,
                                        "@B block must be followed by heredoc open", "",
                                        "error")))
                      ELSE validate_blocks(lines, i + 1, ids, FALSE, heredoc_start, e2)
             ELSE validate_blocks(lines, i + 1, block_ids, FALSE, heredoc_start, errors)

(* mutant: the scan is skipped once an anchor line was found wrong *)
scan_blocks_UnlessAnchorErrors(lines, errors) ==
    IF errors # <<>> THEN errors ELSE validate_blocks(lines, 3, {}, FALSE, 0, errors)

(* lines 70-128: the block scan that follows the anchor checks *)
scan_blocks(lines, errors) == validate_blocks(lines, 3, {}, FALSE, 0, errors)

(* lines 52-60: checks on the stripped metadata line *)
metadata_issues(meta_line) ==
    LET fields == Split(SubSeq(meta_line, Len(METADATA_PREFIX) + 1, Len(meta_line)), "|")
    IN  IF ~StartsWith(meta_line, METADATA_PREFIX)
        THEN <<ValidationError(2, "Expected metadata line", "", "error")>>
        ELSE IF Len(fields) < 4
        THEN <<ValidationError(2, "Metadata needs 4 pipe-separated fields", "", "error")>>
        ELSE <<>>

validate(t) ==
    LET lines == SplitLines(t)
    IN  IF lines = <<>> THEN <<ValidationError(1, "Empty document", "", "error")>>
        ELSE IF Strip(lines[1]) # FORMAT_HEADER
        THEN <<ValidationError(1, "Expected format header", "", "error")>>
        ELSE IF Len(lines) < 2
        THEN <<ValidationError(2, "Missing metadata line", "", "error")>>
        ELSE LET e2 == metadata_issues(Strip(lines[2]))
             IN  IF Len(lines) < 3
                 THEN Append(e2, ValidationError(3, "Missing separator", "", "error"))
                 ELSE LET e3 == IF Strip(lines[3]) # SECTION_SEPARATOR
                                THEN Append(e2, ValidationError(3, "Expected separator",
                                                                "", "error"))
                                ELSE e2
                      IN  scan_blocks(lines, e3)

(* mutant: any issue, warnings included, makes the document invalid *)
is_valid_NoIssues(errs) == errs = <<>>

is_valid(errs) == \A k \in 1..Len(errs) : errs[k].severity # "error"

(***************************************************************************)
(* formatter.py                                                            *)
(***************************************************************************)
RECURSIVE Join(_, _)
Join(sep, lines) ==
    IF lines = <<>> THEN <<>>
    ELSE IF Len(lines) = 1 THEN lines[1]
    ELSE lines[1] \o sep \o Join(sep, Tail(lines))

(* lines 26-35: the lines appended for one block *)
(* mutant: a blob is written without its heredoc markers *)
format_block_NoMarkers(block) ==
    <<(<<>>), <<"@", block.sigil, ":">> \o block.block_id>> \o block.lines

format_block(block) ==
    <<(<<>>), <<"@", block.sigil, ":">> \o block.block_id>>
    \o (IF block.is_heredoc
        THEN <<HEREDOC_OPEN>> \o block.lines \o <<HEREDOC_CLOSE>>
        ELSE block.lines)

RECURSIVE format_blocks(_)
format_blocks(blocks) ==
    IF blocks = <<>> THEN <<>>
    ELSE format_block(Head(blocks)) \o format_blocks(Tail(blocks))

format_document(d) ==
    LET m == d.metadata
        lines == <<FORMAT_HEADER,
                   METADATA_PREFIX \o m.doc_id \o <<"|">> \o m.title \o <<"|">>
                       \o m.source \o <<"|">> \o m.timestamp,
                   SECTION_SEPARATOR>>
                 \o format_blocks(d.blocks)
    IN  Join(<<NL>>, lines) \o <<NL>>

(***************************************************************************)
(* More Python str and re primitives.                                      *)
(***************************************************************************)
LowerSeq == <<"a", "b", "c", "d", "e", "f", "g", "h", "i", "j", "k", "l", "m",
              "n", "o", "p", "q", "r", "s", "t", "u", "v", "w", "x", "y", "z">>

UpperSeq == <<"A", "B", "C", "D", "E", "F", "G", "H", "I", "J", "K", "L", "M",
              "N", "O", "P", "Q", "R", "S", "T", "U", "V", "W", "X", "Y", "Z">>

LOWER == {LowerSeq[k] : k \in 1..26}

DIGITS == {"0", "1", "2", "3", "4", "5", "6", "7", "8", "9"}

IsLetter(c) == c \in LOWER \/ c \in UPPER

ToUpper(c) == IF c \in LOWER THEN UpperSeq[CHOOSE k \in 1..26 : LowerSeq[k] = c] ELSE c

ToLower(c) == IF c \in UPPER THEN LowerSeq[CHOOSE k \in 1..26 : UpperSeq[k] = c] ELSE c

MatchAt(s, p, i) == i + Len(p) - 1 <= Len(s) /\ SubSeq(s, i, i + Len(p) - 1) = p

(* str.find, 1-indexed; 0 when absent *)
Find(s, p) ==
    LET hits == {i \in 1..(Len(s) + 1) : MatchAt(s, p, i)}
    IN  IF hits = {} THEN 0 ELSE Min(hits)

Contains(s, p) == Find(s, p) # 0

(* str.replace for a non-empty old *)
RECURSIVE ReplaceFrom(_, _, _, _)
ReplaceFrom(s, old, new, i) ==
    LET hits == {j \in i..Len(s) : MatchAt(s, old, j)}
    IN  IF hits = {} THEN SubSeq(s, i, Len(s))
        ELSE SubSeq(s, i, Min(hits) - 1) \o new
             \o ReplaceFrom(s, old, new, Min(hits) + Len(old))

Replace(s, old, new) == ReplaceFrom(s, old, new, 1)

(* the positions of s that a substitution keeps, in order *)
Kept(s, Drop(_)) == SelectSeq(SeqOf([k \in 1..Len(s) |-> k]), LAMBDA k : ~Drop(k))

(* re.sub(r"\s+", " ", text) *)
CollapseSpace(s) ==
    LET kept == Kept(s, LAMBDA k : IsSpace(s[k]) /\ k < Len(s) /\ IsSpace(s[k + 1]))
    IN  SeqOf([n \in 1..Len(kept) |-> IF IsSpace(s[kept[n]]) THEN " " ELSE s[kept[n]]])

(* str.title: a letter is upper-cased unless the character before it is a letter *)
Title(s) ==
    SeqOf([k \in 1..Len(s) |->
              IF k > 1 /\ IsLetter(s[k - 1]) THEN ToLower(s[k]) ELSE ToUpper(s[k])])

(* dict as a sequence of <<key, value>> pairs in insertion order *)
DictKeys(dct) == {dct[k][1] : k \in 1..Len(dct)}

DictSet(dct, key, val) ==
    IF key \in DictKeys(dct)
    THEN SeqOf([k \in 1..Len(dct) |-> IF dct[k][1] = key THEN <<key, val>> ELSE dct[k]])
    ELSE Append(dct, <<key, val>>)

(* {**a, **b} and dict.update *)
RECURSIVE DictMerge(_, _)
DictMerge(a, b) ==
    IF b = <<>> THEN a ELSE DictMerge(DictSet(a, b[1][1], b[1][2]), Tail(b))

(***************************************************************************)
(* abbreviations.py                                                        *)
(***************************************************************************)
ENCODE_MAP ==
    << << <<"m", "o", "d", "u", "l", "e">>, <<"m", "o", "d">> >>,
       << <<"m", "o", "d", "u", "l", "e", "s">>, <<"m", "o", "d", "s">> >>,
       << <<"p", "l", "u", "g", "i", "n">>, <<"p", "l", "g">> >>,
       << <<"p", "l", "u", "g", "i", "n", "s">>, <<"p", "l", "g", "s">> >>,
       << <<"m", "a", "i", "n", "t", "a", "i", "n", "e", "d">>, <<"m", "n", "t">> >>,
       << <<"a", "b", "a", "n", "d", "o", "n", "e", "d">>, <<"a", "b", "d">> >>,
       << <<"d", "e", "p", "e", "n", "d", "e", "n", "c", "y">>, <<"d", "e", "p">> >>,
       << <<"d", "e", "p", "e", "n", "d", "e", "n", "c", "i", "e", "s">>, <<"d", "e", "p", "s">> >>,
       << <<"c", "o", "n", "f", "i", "g", "u", "r", "a", "t", "i", "o", "n">>, <<"c", "f", "g">> >>,
       << <<"c", "o", "n", "f", "i", "g", "u", "r", "e">>, <<"c", "f", "g">> >>,
       << <<"s", "e", "c", "u", "r", "i", "t", "y">>, <<"s", "e", "c">> >>,
       << <<"p", "e", "r", "f", "o", "r", "m", "a", "n", "c", "e">>, <<"p", "e", "r", "f">> >>,
       << <<"s", "t", "a", "b", "i", "l", "i", "t", "y">>, <<"s", "t", "a", "b">> >>,
       << <<"d", "o", "c", "u", "m", "e", "n", "t", "a", "t", "i", "o", "n">>, <<"d", "o", "c">> >>,
       << <<"a", "u", "t", "h", "e", "n", "t", "i", "c", "a", "t", "i", "o", "n">>, <<"a", "u", "t", "h">> >>,
       << <<"p", "e", "r", "m", "i", "s", "s", "i", "o", "n", "s">>, <<"p", "e", "r", "m">> >>,
       << <<"r", "e", "p", "o", "s", "i", "t", "o", "r", "y">>, <<"r", "e", "p", "o">> >>,
       << <<"r", "e", "p", "o", "s", "i", "t", "o", "r", "i", "e", "s">>, <<"r", "e", "p", "o", "s">> >>,
       << <<"t", "e", "m", "p", "l", "a", "t", "e">>, <<"t", "p", "l">> >>,
       << <<"t", "e", "m", "p", "l", "a", "t", "e", "s">>, <<"t", "p", "l", "s">> >>,
       << <<"e", "n", "v", "i", "r", "o", "n", "m", "e", "n", "t">>, <<"e", "n", "v">> >>,
       << <<"i", "m", "p", "l", "e", "m", "e", "n", "t", "a", "t", "i", "o", "n">>, <<"i", "m", "p", "l">> >>,
       << <<"v", "e", "r", "s", "i", "o", "n">>, <<"v", "e", "r">> >>,
       << <<"v", "e", "r", "s", "i", "o", "n", "s">>, <<"v", "e", "r", "s">> >>,
       << <<"u", "p", "d", "a", "t", "e">>, <<"u", "p", "d">> >>,
       << <<"u", "p", "d", "a", "t", "e", "s">>, <<"u", "p", "d", "s">> >>,
       << <<"b", "r", "e", "a", "k", "i", "n", "g">>, <<"b", "r", "k">> >>,
       << <<"c", "o", "m", "p", "a", "t", "i", "b", "i", "l", "i", "t", "y">>, <<"c", "o", "m", "p", "a", "t">> >>,
       << <<"d", "e", "v", "e", "l", "o", "p", "e", "r", " ", "e", "x", "p", "e", "r", "i", "e", "n", "c", "e">>, <<"d", "x">> >>,
       << <<"c", "o", "n", "t", "i", "n", "u", "o", "u", "s", " ", "i", "n", "t", "e", "g", "r", "a", "t", "i", "o", "n">>, <<"c", "i">> >>,
       << <<"p", "u", "l", "l", " ", "r", "e", "q", "u", "e", "s", "t">>, <<"p", "r">> >>,
       << <<"p", "u", "l", "l", " ", "r", "e", "q", "u", "e", "s", "t", "s">>, <<"p", "r", "s">> >>,
       << <<"f", "u", "n", "c", "t", "i", "o", "n">>, <<"f", "n">> >>,
       << <<"f", "u", "n", "c", "t", "i", "o", "n", "s">>, <<"f", "n", "s">> >>,
       << <<"c", "l", "a", "s", "s">>, <<"c", "l", "s">> >>,
       << <<"c", "l", "a", "s", "s", "e", "s">>, <<"c", "l", "s", "s">> >>,
       << <<"s", "e", "r", "v", "i", "c", "e">>, <<"s", "v", "c">> >>,
       << <<"s", "e", "r", "v", "i", "c", "e", "s">>, <<"s", "v", "c", "s">> >>,
       << <<"d", "e", "p", "e", "n", "d", "e", "n", "c", "y", " ", "i", "n", "j", "e", "c", "t", "i", "o", "n">>, <<"d", "i">> >>,
       << <<"c", "a", "c", "h", "e">>, <<"c", "c", "h">> >>,
       << <<"c", "a", "c", "h", "i", "n", "g">>, <<"c", "c", "h">> >>,
       << <<"c", "o", "n", "t", "e", "x", "t">>, <<"c", "t", "x">> >>,
       << <<"r", "e", "q", "u", "i", "r", "e">>, <<"r", "e", "q">> >>,
       << <<"r", "e", "q", "u", "i", "r", "e", "d">>, <<"r", "e", "q">> >>,
       << <<"r", "e", "q", "u", "i", "r", "e", "m", "e", "n", "t">>, <<"r", "e", "q">> >>,
       << <<"r", "e", "q", "u", "i", "r", "e", "m", "e", "n", "t", "s">>, <<"r", "e", "q", "s">> >>,
       << <<"v", "a", "l", "i", "d", "a", "t", "e">>, <<"v", "a", "l">> >>,
       << <<"v", "a", "l", "i", "d", "a", "t", "i", "o", "n">>, <<"v", "a", "l">> >>,
       << <<"s", "a", "n", "i", "t", "i", "z", "e">>, <<"s", "a", "n">> >>,
       << <<"s", "a", "n", "i", "t", "i", "z", "a", "t", "i", "o", "n">>, <<"s", "a", "n">> >>,
       << <<"e", "s", "c", "a", "p", "e">>, <<"e", "s", "c">> >>,
       << <<"e", "s", "c", "a", "p", "i", "n", "g">>, <<"e", "s", "c">> >>,
       << <<"c", "h", "e", "c", "k">>, <<"c", "h", "k">> >>,
       << <<"c", "h", "e", "c", "k", "s">>, <<"c", "h", "k", "s">> >>,
       << <<"W", "o", "r", "d", "P", "r", "e", "s", "s">>, <<"w", "p">> >>,
       << <<"D", "r", "u", "p", "a", "l">>, <<"d", "p">> >>,
       << <<"d", "e", "p", "r", "e", "c", "a", "t", "e", "d">>, <<"d", "e", "p", "r">> >>,
       << <<"d", "e", "p", "r", "e", "c", "a", "t", "i", "o", "n">>, <<"d", "e", "p", "r">> >>,
       << <<"d", "e", "p", "r", "e", "c", "a", "t", "i", "o", "n", "s">>, <<"d", "e", "p", "r", "s">> >>,
       << <<"a", "p", "p", "l", "i", "c", "a", "t", "i", "o", "n">>, <<"a", "p", "p">> >>,
       << <<"a", "p", "p", "l", "i", "c", "a", "t", "i", "o", "n", "s">>, <<"a", "p", "p", "s">> >>,
       << <<"d", "a", "t", "a", "b", "a", "s", "e">>, <<"d", "b">> >>,
       << <<"d", "a", "t", "a", "b", "a", "s", "e", "s">>, <<"d", "b", "s">> >>,
       << <<"d", "i", "r", "e", "c", "t", "o", "r", "y">>, <<"d", "i", "r">> >>,
       << <<"d", "i", "r", "e", "c", "t", "o", "r", "i", "e", "s">>, <<"d", "i", "r", "s">> >>,
       << <<"p", "a", "r", "a", "m", "e", "t", "e", "r">>, <<"p", "a", "r", "a", "m">> >>,
       << <<"p", "a", "r", "a", "m", "e", "t", "e", "r", "s">>, <<"p", "a", "r", "a", "m", "s">> >>,
       << <<"a", "r", "g", "u", "m", "e", "n", "t">>, <<"a", "r", "g">> >>,
       << <<"a", "r", "g", "u", "m", "e", "n", "t", "s">>, <<"a", "r", "g", "s">> >>,
       << <<"r", "e", "s", "p", "o", "n", "s", "e">>, <<"r", "e", "s", "p">> >>,
       << <<"r", "e", "q", "u", "e", "s", "t">>, <<"r", "e", "q">> >>,
       << <<"m", "i", "d", "d", "l", "e", "w", "a", "r", "e">>, <<"m", "w">> >>,
       << <<"c", "o", "n", "t", "r", "o", "l", "l", "e", "r">>, <<"c", "t", "r", "l">> >>,
       << <<"c", "o", "n", "t", "r", "o", "l", "l", "e", "r", "s">>, <<"c", "t", "r", "l", "s">> >>,
       << <<"c", "o", "m", "p", "o", "n", "e", "n", "t">>, <<"c", "o", "m", "p">> >>,
       << <<"c", "o", "m", "p", "o", "n", "e", "n", "t", "s">>, <<"c", "o", "m", "p", "s">> >>,
       << <<"d", "e", "s", "c", "r", "i", "p", "t", "i", "o", "n">>, <<"d", "e", "s", "c">> >>,
       << <<"s", "p", "e", "c", "i", "f", "i", "c", "a", "t", "i", "o", "n">>, <<"s", "p", "e", "c">> >>,
       << <<"i", "n", "f", "r", "a", "s", "t", "r", "u", "c", "t", "u", "r", "e">>, <<"i", "n", "f", "r", "a">> >>,
       << <<"p", "r", "o", "d", "u", "c", "t", "i", "o", "n">>, <<"p", "r", "o", "d">> >>,
       << <<"d", "e", "v", "e", "l", "o", "p", "m", "e", "n", "t">>, <<"d", "e", "v">> >>,
       << <<"d", "e", "f", "a", "u", "l", "t">>, <<"d", "e", "f">> >>,
       << <<"m", "a", "x", "i", "m", "u", "m">>, <<"m", "a", "x">> >>,
       << <<"m", "i", "n", "i", "m", "u", "m">>, <<"m", "i", "n">> >>,
       << <<"i", "n", "f", "o", "r", "m", "a", "t", "i", "o", "n">>, <<"i", "n", "f", "o">> >>,
       << <<"a", "v", "a", "i", "l", "a", "b", "l", "e">>, <<"a", "v", "a", "i", "l">> >>,
       << <<"b", "a", "c", "k", "w", "a", "r", "d", "s">>, <<"b", "k", "w", "d">> >>,
       << <<"o", "t", "h", "e", "r", "w", "i", "s", "e">>, <<"e", "l", "s", "e">> >>,
       << <<"a", "p", "p", "r", "o", "x", "i", "m", "a", "t", "e", "l", "y">>, <<"~">> >>,
       << <<"i", "m", "p", "o", "r", "t", "a", "n", "t">>, <<"*">> >> >>

(* mutant: a later full phrase replaces the one stored for its abbreviation *)
RECURSIVE build_decode_map_LastWins(_, _)
build_decode_map_LastWins(enc, dec) ==
    IF enc = <<>> THEN dec
    ELSE IF enc[1][2] \in DictKeys(dec)
    THEN build_decode_map_LastWins(Tail(enc), DictSet(dec, enc[1][2], enc[1][1]))
    ELSE build_decode_map_LastWins(Tail(enc), Append(dec, <<enc[1][2], enc[1][1]>>))

(* lines 108-113: first full phrase seen for an abbreviation wins *)
RECURSIVE build_decode_map(_, _)
build_decode_map(enc, dec) ==
    IF enc = <<>> THEN dec
    ELSE IF enc[1][2] \in DictKeys(dec) THEN build_decode_map(Tail(enc), dec)
    ELSE build_decode_map(Tail(enc), Append(dec, <<enc[1][2], enc[1][1]>>))

DECODE_MAP == build_decode_map(ENCODE_MAP, <<>>)

(***************************************************************************)
(* ast_nodes.py: CPFDocument.get_constants                                 *)
(***************************************************************************)
RECURSIVE constants_of_pairs(_, _)
constants_of_pairs(pairs, constants) ==
    IF pairs = <<>> THEN constants
    ELSE LET pair == Strip(Head(pairs))
             at == Find(pair, <<":", ":">>)
         IN  IF at # 0
             THEN constants_of_pairs(Tail(pairs),
                      DictSet(constants, Strip(SubSeq(pair, 1, at - 1)),
                              Strip(SubSeq(pair, at + 2, Len(pair)))))
             ELSE constants_of_pairs(Tail(pairs), constants)

RECURSIVE constants_of_lines(_, _)
constants_of_lines(lines, constants) ==
    IF lines = <<>> THEN constants
    ELSE constants_of_lines(Tail(lines),
             constants_of_pairs(Split(Head(lines), ";"), constants))

RECURSIVE constants_of_blocks(_, _)
constants_of_blocks(blocks, constants) ==
    IF blocks = <<>> THEN constants
    ELSE IF Head(blocks).sigil = "C"
    THEN constants_of_blocks(Tail(blocks),
             constants_of_lines(Head(blocks).lines, constants))
    ELSE constants_of_blocks(Tail(blocks), constants)

get_constants(d) == constants_of_blocks(d.blocks, <<>>)

(***************************************************************************)
(* decoder.py                                                              *)
(***************************************************************************)
SIGIL_TITLES ==
    << <<"R", <<>> >>,
       <<"P", <<"P", "r", "i", "o", "r", "i", "t", "i", "e", "s">> >>,
       <<"N", <<"R", "e", "s", "t", "r", "i", "c", "t", "i", "o", "n", "s">> >>,
       <<"S", <<"S", "t", "e", "p", "s">> >>,
       <<"T", <<>> >>,
       <<"X", <<"E", "x", "a", "c", "t", " ", "R", "e", "q", "u", "i", "r", "e", "m",
                "e", "n", "t", "s">> >>,
       <<"Z", <<"S", "c", "o", "p", "e">> >>,
       <<"C", <<>> >>,
       <<"B", <<>> >> >>

DictGet(dct, key, default) ==
    IF key \in DictKeys(dct)
    THEN dct[CHOOSE k \in 1..Len(dct) : dct[k][1] = key][2]
    ELSE default

block_header(block) ==
    LET base_title == DictGet(SIGIL_TITLES, block.sigil, <<>>)
        id_title == Title(Replace(block.block_id, <<"-">>, <<" ">>))
    IN  IF base_title # <<>> THEN base_title \o <<":", " ">> \o id_title ELSE id_title

capitalize(t) ==
    IF t # <<>> /\ t[1] \in LOWER THEN <<ToUpper(t[1])>> \o Tail(t) ELSE t

(* _replace_outside_parens for a one-character old *)
RECURSIVE replace_outside_parens_from(_, _, _, _, _)
(* mutant: a closing parenthesis takes the depth below 0 *)
replace_outside_parens_from_Unclamped(t, old, new, i, depth) ==
    IF i > Len(t) THEN <<>>
    ELSE IF t[i] = "("
    THEN <<t[i]>> \o replace_outside_parens_from(t, old, new, i + 1, depth + 1)
    ELSE IF t[i] = ")"
    THEN <<t[i]>> \o replace_outside_parens_from(t, old, new, i + 1,
                         depth - 1)
    ELSE IF depth = 0 /\ MatchAt(t, old, i)
    THEN new \o replace_outside_parens_from(t, old, new, i + Len(old), depth)
    ELSE <<t[i]>> \o replace_outside_parens_from(t, old, new, i + 1, depth)

replace_outside_parens_from(t, old, new, i, depth) ==
    IF i > Len(t) THEN <<>>
    ELSE IF t[i] = "("
    THEN <<t[i]>> \o replace_outside_parens_from(t, old, new, i + 1, depth + 1)
    ELSE IF t[i] = ")"
    THEN <<t[i]>> \o replace_outside_parens_from(t, old, new, i + 1,
                         IF depth - 1 > 0 THEN depth - 1 ELSE 0)
    ELSE IF depth = 0 /\ MatchAt(t, old, i)
    THEN new \o replace_outside_parens_from(t, old, new, i + Len(old), depth)
    ELSE <<t[i]>> \o replace_outside_parens_from(t, old, new, i + 1, depth)

replace_outside_parens(t, old, new) == replace_outside_parens_from(t, old, new, 1, 0)

(* re.sub(r"(?<![a-zA-Z])" + re.escape(abbr) + r"(?![a-zA-Z])", full, text) *)
TokenAt(t, abbr, i) ==
    /\ MatchAt(t, abbr, i)
    /\ (i = 1 \/ ~IsLetter(t[i - 1]))
    /\ (i + Len(abbr) > Len(t) \/ ~IsLetter(t[i + Len(abbr)]))

RECURSIVE expand_token_from(_, _, _, _)
expand_token_from(t, abbr, full, i) ==
    LET hits == {j \in i..(Len(t) + 1) : TokenAt(t, abbr, j)}
        j    == Min(hits)
    IN  IF hits = {} THEN SubSeq(t, i, Len(t))
        ELSE IF abbr # <<>>
        THEN SubSeq(t, i, j - 1) \o full \o expand_token_from(t, abbr, full, j + Len(abbr))
        ELSE SubSeq(t, i, j - 1) \o full
             \o (IF j <= Len(t) THEN <<t[j]>> ELSE <<>>)
             \o expand_token_from(t, abbr, full, j + 1)

(* sorted(abbrevs.items(), key=lambda x: len(x[0]), reverse=True) is stable:
   entry j comes before entry k of the sorted entries *)
SortsBefore(entries, j, k) ==
    \/ Len(entries[j][1]) > Len(entries[k][1])
    \/ Len(entries[j][1]) = Len(entries[k][1]) /\ j < k

(* the first entry of the sorted entries after entry last (after none when
   last is 0) whose key Occurs, 0 when there is none *)
NextEntry(entries, last, Occurs(_)) ==
    LET later == {k \in 1..Len(entries) :
                     Occurs(k) /\ (last = 0 \/ SortsBefore(entries, last, k))}
    IN  IF later = {} THEN 0
        ELSE CHOOSE k \in later : \A j \in later \ {k} : SortsBefore(entries, k, j)

(* lines 225-228: the substitutions in sorted order; an entry whose key does
   not occur in the text leaves it unchanged and is stepped over *)
RECURSIVE apply_entries(_, _, _)
apply_entries(t, entries, last) ==
    LET k == NextEntry(entries, last, LAMBDA e : Contains(t, entries[e][1]))
    IN  IF k = 0 THEN t
        ELSE apply_entries(expand_token_from(t, entries[k][1], entries[k][2], 1),
                           entries, k)

apply_expansions(t, abbrevs) == apply_entries(t, abbrevs, 0)

expand_fragment(t, abbrevs) ==
    LET t1 == Replace(t, <<"=", ">">>, <<" ", "r", "e", "s", "u", "l", "t", "s", " ", "i", "n", " ">>)
        t2 == Replace(t1, <<"-", ">">>, <<" ", "t", "h", "e", "n", " ">>)
        t3 == Replace(t2, <<"@", ">">>, <<"s", "e", "e", " ">>)
        t4 == replace_outside_parens(t3, <<"+">>, <<" ", "a", "n", "d", " ">>)
        t5 == replace_outside_parens(t4, <<"|">>, <<" ", "o", "r", " ">>)
        t6 == apply_expansions(t5, abbrevs)
    IN  Strip(CollapseSpace(t6))

(* mutant: every else-branch is rendered with Otherwise *)
expand_conditional_AlwaysOtherwise(t, negated, abbrevs) ==
    LET arrow == Find(t, <<"-", ">">>)
        prefix == IF negated THEN <<"n", "o", "t", " ">> ELSE <<>>
    IN  IF arrow # 0
        THEN LET condition == expand_fragment(SubSeq(t, 1, arrow - 1), abbrevs)
                 action_part == SubSeq(t, arrow + 2, Len(t))
                 semi == Find(action_part, <<";">>)
             IN  IF semi # 0
                 THEN LET action == expand_fragment(SubSeq(action_part, 1, semi - 1), abbrevs)
                          else_part == Strip(SubSeq(action_part, semi + 1, Len(action_part)))
                      IN  IF FALSE
                          THEN condition \o <<":", " ">> \o action
                               \o <<".", " ", "D", "o", " ", "N", "O", "T", " ">>
                               \o expand_fragment(SubSeq(else_part, 3, Len(else_part)), abbrevs)
                               \o <<".">>
                          ELSE condition \o <<":", " ">> \o action
                               \o <<".", " ", "O", "t", "h", "e", "r", "w", "i", "s", "e", ",", " ">>
                               \o expand_fragment(else_part, abbrevs) \o <<".">>
                 ELSE prefix \o condition \o <<":", " ">>
                      \o expand_fragment(action_part, abbrevs) \o <<".">>
        ELSE prefix \o expand_fragment(t, abbrevs) \o <<".">>

expand_conditional(t, negated, abbrevs) ==
    LET arrow == Find(t, <<"-", ">">>)
        prefix == IF negated THEN <<"n", "o", "t", " ">> ELSE <<>>
    IN  IF arrow # 0
        THEN LET condition == expand_fragment(SubSeq(t, 1, arrow - 1), abbrevs)
                 action_part == SubSeq(t, arrow + 2, Len(t))
                 semi == Find(action_part, <<";">>)
             IN  IF semi # 0
                 THEN LET action == expand_fragment(SubSeq(action_part, 1, semi - 1), abbrevs)
                          else_part == Strip(SubSeq(action_part, semi + 1, Len(action_part)))
                      IN  IF StartsWith(else_part, <<"!", "!">>)
                          THEN condition \o <<":", " ">> \o action
                               \o <<".", " ", "D", "o", " ", "N", "O", "T", " ">>
                               \o expand_fragment(SubSeq(else_part, 3, Len(else_part)), abbrevs)
                               \o <<".">>
                          ELSE condition \o <<":", " ">> \o action
                               \o <<".", " ", "O", "t", "h", "e", "r", "w", "i", "s", "e", ",", " ">>
                               \o expand_fragment(else_part, abbrevs) \o <<".">>
                 ELSE prefix \o condition \o <<":", " ">>
                      \o expand_fragment(action_part, abbrevs) \o <<".">>
        ELSE prefix \o expand_fragment(t, abbrevs) \o <<".">>

(* re.match(r"^#(\d+)\s+(.+)$", text) on a stripped text *)
DigitsEnd(t) ==
    IF \E j \in 2..Len(t) : t[j] \notin DIGITS
    THEN Min({j \in 2..Len(t) : t[j] \notin DIGITS}) - 1
    ELSE Len(t)

PriorityMatch(t) ==
    /\ Len(t) >= 4
    /\ t[1] = "#"
    /\ DigitsEnd(t) >= 2
    /\ DigitsEnd(t) < Len(t)
    /\ IsSpace(t[DigitsEnd(t) + 1])

PriorityNum(t) == SubSeq(t, 2, DigitsEnd(t))

PriorityText(t) == LStrip(SubSeq(t, DigitsEnd(t) + 1, Len(t)))

(* re.match(r"^prefer\((.+?)\)>(.+)$", text) *)
PreferPrefix == <<"p", "r", "e", "f", "e", "r", "(">>

PreferCloses(t) == {j \in 9..(Len(t) - 2) : t[j] = ")" /\ t[j + 1] = ">"}

PreferMatch(t) == StartsWith(t, PreferPrefix) /\ PreferCloses(t) # {}

PreferFirst(t) == SubSeq(t, 8, Min(PreferCloses(t)) - 1)

PreferOver(t) == SubSeq(t, Min(PreferCloses(t)) + 2, Len(t))

(* mutant: the definition separator is looked for before the prefixes *)
expand_line_DefinitionFirst(line, abbrevs, sigil) ==
    LET t == Strip(line)
    IN  IF t = <<>> THEN <<>>
        ELSE IF Contains(t, <<":", ":">>) /\ ~StartsWith(t, <<"@", ">">>)
        THEN LET at == Find(t, <<":", ":">>)
             IN  <<"-", " ", "*", "*">>
                 \o capitalize(expand_fragment(SubSeq(t, 1, at - 1), abbrevs))
                 \o <<":", "*", "*", " ">>
                 \o expand_fragment(SubSeq(t, at + 2, Len(t)), abbrevs) \o <<".">>
        ELSE IF StartsWith(t, <<"?", "!">>)
        THEN <<"-", " ", "U", "n", "l", "e", "s", "s", " ">>
             \o expand_conditional(SubSeq(t, 3, Len(t)), TRUE, abbrevs)
        ELSE IF StartsWith(t, <<"?">>)
        THEN <<"-", " ", "I", "f", " ">>
             \o expand_conditional(SubSeq(t, 2, Len(t)), FALSE, abbrevs)
        ELSE IF StartsWith(t, <<"!", "!">>)
        THEN <<"-", " ", "D", "o", " ", "N", "O", "T", " ">>
             \o expand_fragment(SubSeq(t, 3, Len(t)), abbrevs) \o <<".">>
        ELSE IF StartsWith(t, <<"*">>)
        THEN <<"-", " ", "*", "*">>
             \o capitalize(expand_fragment(SubSeq(t, 2, Len(t)), abbrevs))
             \o <<".", "*", "*">>
        ELSE IF PriorityMatch(t)
        THEN PriorityNum(t) \o <<".", " ">>
             \o capitalize(expand_fragment(PriorityText(t), abbrevs))
        ELSE IF PreferMatch(t)
        THEN <<"-", " ", "P", "r", "e", "f", "e", "r", " ">>
             \o expand_fragment(PreferFirst(t), abbrevs)
             \o <<" ", "o", "v", "e", "r", " ">>
             \o expand_fragment(PreferOver(t), abbrevs) \o <<".">>
        ELSE IF StartsWith(t, <<"@", ">">>)
        THEN <<"-", " ", "S", "e", "e", " ">>
             \o expand_fragment(SubSeq(t, 3, Len(t)), abbrevs) \o <<".">>
        ELSE <<"-", " ">> \o capitalize(expand_fragment(t, abbrevs)) \o <<".">>

expand_line(line, abbrevs, sigil) ==
    LET t == Strip(line)
    IN  IF t = <<>> THEN <<>>
        ELSE IF StartsWith(t, <<"?", "!">>)
        THEN <<"-", " ", "U", "n", "l", "e", "s", "s", " ">>
             \o expand_conditional(SubSeq(t, 3, Len(t)), TRUE, abbrevs)
        ELSE IF StartsWith(t, <<"?">>)
        THEN <<"-", " ", "I", "f", " ">>
             \o expand_conditional(SubSeq(t, 2, Len(t)), FALSE, abbrevs)
        ELSE IF StartsWith(t, <<"!", "!">>)
        THEN <<"-", " ", "D", "o", " ", "N", "O", "T", " ">>
             \o expand_fragment(SubSeq(t, 3, Len(t)), abbrevs) \o <<".">>
        ELSE IF StartsWith(t, <<"*">>)
        THEN <<"-", " ", "*", "*">>
             \o capitalize(expand_fragment(SubSeq(t, 2, Len(t)), abbrevs))
             \o <<".", "*", "*">>
        ELSE IF PriorityMatch(t)
        THEN PriorityNum(t) \o <<".", " ">>
             \o capitalize(expand_fragment(PriorityText(t), abbrevs))
        ELSE IF PreferMatch(t)
        THEN <<"-", " ", "P", "r", "e", "f", "e", "r", " ">>
             \o expand_fragment(PreferFirst(t), abbrevs)
             \o <<" ", "o", "v", "e", "r", " ">>
             \o expand_fragment(PreferOver(t), abbrevs) \o <<".">>
        ELSE IF Contains(t, <<":", ":">>) /\ ~StartsWith(t, <<"@", ">">>)
        THEN LET at == Find(t, <<":", ":">>)
             IN  <<"-", " ", "*", "*">>
                 \o capitalize(expand_fragment(SubSeq(t, 1, at - 1), abbrevs))
                 \o <<":", "*", "*", " ">>
                 \o expand_fragment(SubSeq(t, at + 2, Len(t)), abbrevs) \o <<".">>
        ELSE IF StartsWith(t, <<"@", ">">>)
        THEN <<"-", " ", "S", "e", "e", " ">>
             \o expand_fragment(SubSeq(t, 3, Len(t)), abbrevs) \o <<".">>
        ELSE <<"-", " ">> \o capitalize(expand_fragment(t, abbrevs)) \o <<".">>

(* lines 76-79: the expanded, non-empty lines of a non-blob block *)
RECURSIVE expand_lines(_, _, _)
expand_lines(lines, abbrevs, sigil) ==
    IF lines = <<>> THEN <<>>
    ELSE LET expanded == expand_line(Head(lines), abbrevs, sigil)
         IN  (IF expanded # <<>> THEN <<expanded>> ELSE <<>>)
             \o expand_lines(Tail(lines), abbrevs, sigil)

(* lines 58-81: the output lines of one block *)
decode_block(block, abbrevs) ==
    IF block.sigil = "C" THEN <<>>
    ELSE << <<"#", "#", " ">> \o block_header(block), <<>> >>
         \o (IF block.is_heredoc
             THEN block.lines
             ELSE expand_lines(block.lines, abbrevs, block.sigil))
         \o << <<>> >>

RECURSIVE decode_blocks(_, _)
decode_blocks(blocks, abbrevs) ==
    IF blocks = <<>> THEN <<>>
    ELSE decode_block(Head(blocks), abbrevs) \o decode_blocks(Tail(blocks), abbrevs)

decode_ast(d, custom_decode) ==
    LET abbrevs == DictMerge(DictMerge(DECODE_MAP, custom_decode), get_constants(d))
        lines == << <<"#", " ">> \o d.metadata.title, <<>> >>
                 \o decode_blocks(d.blocks, abbrevs)
    IN  RStrip(Join(<<NL>>, lines)) \o <<NL>>

DecodeOk(out) == [ok |-> TRUE, out |-> out, error |-> ParseOk(NoDocument)]

DecodeRaised(e) == [ok |-> FALSE, out |-> <<>>, error |-> e]

decode(t, custom_decode) ==
    LET r == parse(t)
    IN  IF r.ok THEN DecodeOk(decode_ast(r.doc, custom_decode)) ELSE DecodeRaised(r)

(***************************************************************************)
(* Python re primitives used by patterns.py, tokenizer.py and utils.py.    *)
(* The em dash of the patterns is the one-character string EM_DASH.        *)
(***************************************************************************)
EM_DASH == "<U+2014>"

ANY == "<.>"

Max(S) == CHOOSE x \in S : \A y \in S : x >= y

LowerStr(s) == SeqOf([k \in 1..Len(s) |-> ToLower(s[k])])

(* \w *)
IsWord(c) == IsLetter(c) \/ c \in DIGITS \/ c = "_"

(* \b in front of position i *)
WordBoundary(s, i) ==
    (i > 1 /\ i - 1 <= Len(s) /\ IsWord(s[i - 1])) # (i >= 1 /\ i <= Len(s) /\ IsWord(s[i]))

(* the position a greedy [set]* starting at i stops at *)
SkipSet(s, i, set) ==
    IF i > Len(s) THEN i
    ELSE Min({j \in i..(Len(s) + 1) : j > Len(s) \/ s[j] \notin set})

(* the position a greedy \s* starting at i stops at *)
SkipSpace(s, i) == SkipSet(s, i, {" ", "\t", "\n", "\r"})

(* a pattern of literal characters and '.' matched at position i *)
MatchPatAt(s, p, i) ==
    /\ i + Len(p) - 1 <= Len(s)
    /\ \A k \in 1..Len(p) : p[k] = ANY \/ s[i + k - 1] = p[k]

(* re.search of an alternation of such patterns *)
SearchAny(s, pats) ==
    \E k \in 1..Len(pats) : \E i \in 1..Len(s) : MatchPatAt(s, pats[k], i)

(* the alternatives of \b(a1|a2|...)\b that match at position i, re.I *)
WordAltsAt(s, ls, alts, i) ==
    {k \in 1..Len(alts) :
        /\ MatchAt(ls, alts[k], i)
        /\ WordBoundary(s, i)
        /\ WordBoundary(s, i + Len(alts[k]))}

(* re.sub(r"\b(a1|a2|...)\b", repl, s, flags=re.I), followed by \s* in the
   pattern when eat *)
RECURSIVE SubWordsFrom(_, _, _, _, _, _)
SubWordsFrom(s, ls, alts, repl, eat, i) ==
    LET hits == {j \in i..Len(s) : WordAltsAt(s, ls, alts, j) # {}}
        j    == Min(hits)
        e    == j + Len(alts[Min(WordAltsAt(s, ls, alts, j))])
    IN  IF hits = {} THEN SubSeq(s, i, Len(s))
        ELSE SubSeq(s, i, j - 1) \o repl
             \o SubWordsFrom(s, ls, alts, repl, eat, IF eat THEN SkipSpace(s, e) ELSE e)

SubWords(s, alts, repl, eat) ==
    LET ls == LowerStr(s)
    IN  IF \A k \in 1..Len(alts) : ~Contains(ls, alts[k]) THEN s
        ELSE SubWordsFrom(s, ls, alts, repl, eat, 1)

(* re.sub(r"\bword\s+", repl, s, flags=re.I) *)
RECURSIVE SubWordSpacesFrom(_, _, _, _, _)
SubWordSpacesFrom(s, ls, word, repl, i) ==
    LET hits == {j \in i..Len(s) : /\ MatchAt(ls, word, j)
                                   /\ WordBoundary(s, j)
                                   /\ SkipSpace(s, j + Len(word)) > j + Len(word)}
    IN  IF hits = {} THEN SubSeq(s, i, Len(s))
        ELSE SubSeq(s, i, Min(hits) - 1) \o repl
             \o SubWordSpacesFrom(s, ls, word, repl, SkipSpace(s, Min(hits) + Len(word)))

SubWordSpaces(s, word, repl) ==
    LET ls == LowerStr(s)
    IN  IF ~Contains(ls, word) THEN s ELSE SubWordSpacesFrom(s, ls, word, repl, 1)

(* re.sub(r"\s*OP\s*", OP, s) for a literal operator OP *)
RECURSIVE SubOpSpacingFrom(_, _, _)
SubOpSpacingFrom(s, op, i) ==
    LET hits == {j \in i..Len(s) : MatchAt(s, op, SkipSpace(s, j))}
    IN  IF hits = {} THEN SubSeq(s, i, Len(s))
        ELSE SubSeq(s, i, Min(hits) - 1) \o op
             \o SubOpSpacingFrom(s, op, SkipSpace(s, SkipSpace(s, Min(hits)) + Len(op)))

SubOpSpacing(s, op) == IF ~Contains(s, op) THEN s ELSE SubOpSpacingFrom(s, op, 1)

(* str.strip(chars), str.rstrip(chars) *)
RECURSIVE LStripChars(_, _)
LStripChars(s, chars) ==
    IF s # <<>> /\ Head(s) \in chars THEN LStripChars(Tail(s), chars) ELSE s

RECURSIVE RStripChars(_, _)
RStripChars(s, chars) ==
    IF s # <<>> /\ s[Len(s)] \in chars
    THEN RStripChars(SubSeq(s, 1, Len(s) - 1), chars) ELSE s

StripChars(s, chars) == LStripChars(RStripChars(s, chars), chars)

(***************************************************************************)
(* utils.py                                                                *)
(***************************************************************************)
(* re.sub(r"[^a-z0-9]+", "-", text) *)
hyphenate(s) ==
    LET Alnum(k) == s[k] \in LOWER \/ s[k] \in DIGITS
        kept == Kept(s, LAMBDA k : ~Alnum(k) /\ k < Len(s) /\ ~Alnum(k + 1))
    IN  SeqOf([n \in 1..Len(kept) |-> IF Alnum(kept[n]) THEN s[kept[n]] ELSE "-"])

(* re.sub(r"-+", "-", text) *)
collapse_hyphens(s) ==
    LET kept == Kept(s, LAMBDA k : s[k] = "-" /\ k < Len(s) /\ s[k + 1] = "-")
    IN  SeqOf([n \in 1..Len(kept) |-> s[kept[n]]])

slugify(t) ==
    LET i  == SkipSet(t, 1, {"#"})
        t1 == IF i > 1 THEN SubSeq(t, SkipSpace(t, i), Len(t)) ELSE t
        t2 == Replace(t1, <<"*", "*">>, <<>>)
        t3 == Strip(LowerStr(t2))
    IN  StripChars(collapse_hyphens(hyphenate(t3)), {"-"})

(* a character c that has no c next to it: (?<!c)c(?!c) *)
Single(s, i, c) ==
    /\ s[i] = c
    /\ (i = 1 \/ s[i - 1] # c)
    /\ (i = Len(s) \/ s[i + 1] # c)

(* re.sub(r"(?<!c)c(?!c)(.*?)(?<!c)c(?!c)", r"\1", s) *)
RECURSIVE strip_pairs_from(_, _, _)
strip_pairs_from(s, c, i) ==
    LET singles == {j \in i..Len(s) : Single(s, j, c)}
        opening == Min(singles)
        closing == Min(singles \ {opening})
    IN  IF Cardinality(singles) < 2 THEN SubSeq(s, i, Len(s))
        ELSE SubSeq(s, i, opening - 1) \o SubSeq(s, opening + 1, closing - 1)
             \o strip_pairs_from(s, c, closing + 1)

strip_markdown_formatting(t) ==
    LET t1 == Replace(t, <<"*", "*">>, <<>>)
        t2 == Replace(t1, <<"_", "_">>, <<>>)
        t3 == strip_pairs_from(t2, "*", 1)
    IN  strip_pairs_from(t3, "_", 1)

(* re.sub(r"[ \t]+", " ", text) *)
collapse_blanks(s) ==
    LET Blank(k) == s[k] \in {" ", "\t"}
        kept == Kept(s, LAMBDA k : Blank(k) /\ k < Len(s) /\ Blank(k + 1))
    IN  SeqOf([n \in 1..Len(kept) |-> IF Blank(kept[n]) THEN " " ELSE s[kept[n]]])

collapse_whitespace(t) == Strip(collapse_blanks(t))

strip_bullet_prefix(line) ==
    LET stripped == Strip(line)
    IN  IF StartsWith(stripped, <<"-", " ">>) \/ StartsWith(stripped, <<"*", " ">>)
        THEN SubSeq(stripped, 3, Len(stripped))
        ELSE stripped

NoMatch == [ok |-> FALSE, g1 |-> <<>>, g2 |-> <<>>]

Groups(g1, g2) == [ok |-> TRUE, g1 |-> g1, g2 |-> g2]

(* re.match(r"^(#{1,6})\s+(.+)$", line.strip()); None is NoMatch *)
extract_section_header(line) ==
    LET s == Strip(line)
        h == SkipSet(s, 1, {"#"})
        w == SkipSpace(s, h)
    IN  IF h > 1 /\ h <= 7 /\ w > h /\ w <= Len(s)
        THEN Groups(<<>>, Strip(SubSeq(s, w, Len(s))))
        ELSE NoMatch

(***************************************************************************)
(* patterns.py: the line-level patterns, each as the groups re.match       *)
(* returns (NoMatch for None).                                             *)
(***************************************************************************)
(* BOLD is the two-asterisk marker; where an optional BOLD at the start of
   the text leaves the match *)
AfterBold(t) == IF MatchAt(t, <<"*", "*">>, 1) THEN 3 ELSE 1

(* the position after the first of the keywords that matches at i and ends
   at a \b, re.I; 0 when none does *)
KeywordEnd(t, keywords, i) ==
    LET m == {k \in 1..Len(keywords) : /\ MatchAt(LowerStr(t), keywords[k], i)
                                       /\ WordBoundary(t, i + Len(keywords[k]))}
    IN  IF m = {} THEN 0 ELSE i + Len(keywords[Min(m)])

(* a lazy group (.+?) that may start anywhere in from..upto (the greedy run
   before it gives characters back) and must end where EndOK holds: the
   start is the last one that admits an end, the end the first one *)
LazyStart(t, from, upto, EndOK(_)) ==
    LET starts == {b \in from..upto : \E q \in (b + 1)..(Len(t) + 1) : EndOK(q)}
    IN  IF starts = {} THEN 0 ELSE Max(starts)

LazyEnd(t, b, EndOK(_)) == Min({q \in (b + 1)..(Len(t) + 1) : EndOK(q)})

(* the separator of CONDITIONAL_RE at position r: a colon or comma, or a
   hyphen or em dash after optional whitespace *)
CondSepAt(t, r) ==
    /\ r <= Len(t)
    /\ \/ t[r] \in {":", ","}
       \/ /\ SkipSpace(t, r) <= Len(t)
          /\ t[SkipSpace(t, r)] \in {"-", EM_DASH}

CondSepEnd(t, r) ==
    IF t[r] \in {":", ","} THEN SkipSpace(t, r + 1)
    ELSE SkipSpace(t, SkipSpace(t, r) + 1)

CONDITIONAL_KEYWORDS == << <<"i", "f">>, <<"w", "h", "e", "n">>,
                           <<"u", "n", "l", "e", "s", "s">> >>

(* lines 41-44: optional BOLD, If|When|Unless, \b, whitespace, a lazy group,
   optional BOLD, the separator and its whitespace, then the rest *)
CONDITIONAL_RE(t) ==
    LET a == KeywordEnd(t, CONDITIONAL_KEYWORDS, AfterBold(t))
        EndOK(q) == \/ CondSepAt(t, q)
                    \/ MatchAt(t, <<"*", "*">>, q) /\ CondSepAt(t, q + 2)
        b == LazyStart(t, a, SkipSpace(t, a), EndOK)
        q == LazyEnd(t, b, EndOK)
        r == IF CondSepAt(t, q) THEN q ELSE q + 2
    IN  IF a = 0 \/ b = 0 THEN NoMatch
        ELSE Groups(SubSeq(t, b, q - 1), SubSeq(t, CondSepEnd(t, r), Len(t)))

(* optional BOLD, optional full stop and whitespace up to the end, from
   position q *)
TailOK(t, q) ==
    LET q1 == IF MatchAt(t, <<"*", "*">>, q) THEN q + 2 ELSE q
        q2 == IF q1 <= Len(t) /\ t[q1] = "." THEN q1 + 1 ELSE q1
    IN  SkipSpace(t, q2) > Len(t)

(* Do\s+NOT|do\s+not|Don't|dont|Never|Avoid|NEVER, then \b; 0 when absent *)
NegationEnd(t, i) ==
    LET lt == LowerStr(t)
        n  == SkipSpace(t, i + 2)
    IN  IF /\ MatchAt(lt, <<"d", "o">>, i)
           /\ n > i + 2
           /\ MatchAt(lt, <<"n", "o", "t">>, n)
           /\ WordBoundary(t, n + 3)
        THEN n + 3
        ELSE KeywordEnd(t, << <<"d", "o", "n", "'", "t">>, <<"d", "o", "n", "t">>,
                              <<"n", "e", "v", "e", "r">>, <<"a", "v", "o", "i", "d">> >>, i)

(* lines 47-50: optional BOLD, the negation keyword, \b, whitespace, a lazy
   group and the tail *)
NEGATION_LINE_RE(t) ==
    LET a == NegationEnd(t, AfterBold(t))
        EndOK(q) == TailOK(t, q)
        b == LazyStart(t, a, SkipSpace(t, a), EndOK)
    IN  IF a = 0 \/ b = 0 THEN NoMatch
        ELSE Groups(SubSeq(t, b, LazyEnd(t, b, EndOK) - 1), <<>>)

IMPERATIVE_KEYWORDS == << <<"a", "l", "w", "a", "y", "s">>, <<"m", "u", "s", "t">>,
                          <<"e", "n", "s", "u", "r", "e">>,
                          <<"m", "a", "k", "e", " ", "s", "u", "r", "e">>,
                          <<"r", "e", "q", "u", "i", "r", "e", "d">>,
                          <<"i", "m", "p", "o", "r", "t", "a", "n", "t">> >>

(* lines 80-83: optional BOLD, the imperative keyword, \b, colons and
   whitespace, a lazy group and the tail *)
IMPERATIVE_RE(t) ==
    LET a == KeywordEnd(t, IMPERATIVE_KEYWORDS, AfterBold(t))
        EndOK(q) == TailOK(t, q)
        b == LazyStart(t, a, SkipSet(t, a, {":", " ", "\t", "\n", "\r"}), EndOK)
    IN  IF a = 0 \/ b = 0 THEN NoMatch
        ELSE Groups(SubSeq(t, b, LazyEnd(t, b, EndOK) - 1), <<>>)

(* \s+(.+) to the end of the text from position e: where the group starts,
   0 when there is no match *)
SpacesThenRest(t, e) ==
    LET w == SkipSpace(t, e)
    IN  IF w = e THEN 0
        ELSE IF w <= Len(t) THEN w
        ELSE IF w - e >= 2 THEN Len(t)
        ELSE 0

PREFER_KEYWORDS == << <<"o", "v", "e", "r">>, <<">">>,
                      <<"i", "n", "s", "t", "e", "a", "d", " ", "o", "f">>,
                      <<"r", "a", "t", "h", "e", "r", " ", "t", "h", "a", "n">> >>

(* the position after \s+(?:over|>|instead of|rather than) from position q,
   0 when it does not match there *)
PreferSepEnd(t, q) ==
    LET k == SkipSpace(t, q)
        m == {j \in 1..Len(PREFER_KEYWORDS) : MatchAt(LowerStr(t), PREFER_KEYWORDS[j], k)}
    IN  IF k = q \/ m = {} THEN 0 ELSE k + Len(PREFER_KEYWORDS[Min(m)])

(* (?:Prefer|prefer)\s+(.+?)\s+(?:over|>|instead of|rather than)\s+(.+) *)
PREFER_RE(t) ==
    LET a == IF MatchAt(LowerStr(t), <<"p", "r", "e", "f", "e", "r">>, 1) THEN 7 ELSE 0
        EndOK(q) == PreferSepEnd(t, q) # 0 /\ SpacesThenRest(t, PreferSepEnd(t, q)) # 0
        b == IF a = 0 THEN 0 ELSE LazyStart(t, a + 1, SkipSpace(t, a), EndOK)
        q == LazyEnd(t, b, EndOK)
    IN  IF b = 0 THEN NoMatch
        ELSE Groups(SubSeq(t, b, q - 1),
                    SubSeq(t, SpacesThenRest(t, PreferSepEnd(t, q)), Len(t)))

(* whitespace, separators, whitespace and a non-empty rest from position p:
   where the group starts, 0 when there is no match *)
KvRest(t, p) ==
    LET s == SkipSpace(t, p)
        e == SkipSet(t, s, {":", EM_DASH, "-"})
        w == SkipSpace(t, e)
    IN  IF e = s THEN 0
        ELSE IF w <= Len(t) THEN w
        ELSE IF w > e THEN Len(t)
        ELSE IF e - s >= 2 THEN Len(t)
        ELSE 0

(* lines 65-67: BOLD, a lazy group, BOLD, whitespace, separators, whitespace
   and a non-empty rest *)
BOLD_KV_RE(t) ==
    LET EndOK(q) == MatchAt(t, <<"*", "*">>, q) /\ KvRest(t, q + 2) # 0
        b == IF MatchAt(t, <<"*", "*">>, 1) THEN LazyStart(t, 3, 3, EndOK) ELSE 0
        q == LazyEnd(t, b, EndOK)
    IN  IF b = 0 THEN NoMatch
        ELSE Groups(SubSeq(t, b, q - 1), SubSeq(t, KvRest(t, q + 2), Len(t)))

(* ^\s*(\d+)\.\s+(.+)$ *)
NUMBERED_RE(t) ==
    LET s == SkipSpace(t, 1)
        d == SkipSet(t, s, DIGITS)
        g == IF d > s /\ d <= Len(t) /\ t[d] = "." THEN SpacesThenRest(t, d + 1) ELSE 0
    IN  IF g = 0 THEN NoMatch
        ELSE Groups(SubSeq(t, s, d - 1), SubSeq(t, g, Len(t)))

(* /[\w./-]+(?:/[\w./-]+)+ : the match inside the run of path characters
   that starts at position i *)
IsPathChar(c) == IsWord(c) \/ c \in {".", "/", "-"}

PathRunEnd(s, i) ==
    Min({j \in i..(Len(s) + 1) : j > Len(s) \/ ~IsPathChar(s[j])})

PathAt(s, i) ==
    /\ s[i] = "/"
    /\ \E j \in (i + 2)..(PathRunEnd(s, i) - 2) : s[j] = "/"

(* PATH_REF_RE.findall(s) *)
RECURSIVE PathsFrom(_, _)
PathsFrom(s, i) ==
    LET hits == {j \in i..Len(s) : PathAt(s, j)}
    IN  IF hits = {} THEN <<>>
        ELSE <<SubSeq(s, Min(hits), PathRunEnd(s, Min(hits)) - 1)>>
             \o PathsFrom(s, PathRunEnd(s, Min(hits)))

PATH_REF_RE(s) == PathsFrom(s, 1)

(* patterns.py:14-16 *)
PRIORITY_HEADERS ==
    <<
    <<"p", "r", "i", "o", "r", "i", "t">>, <<"o", "r", "d", "e", "r">>,
    <<"h", "i", "e", "r", "a", "r", "c", "h", "y">>,
    <<"r", "a", "n", "k", "i", "n", "g">>,
    <<"p", "r", "e", "c", "e", "d", "e", "n", "c", "e">> >>

(* patterns.py:19-21 *)
NEGATION_HEADERS ==
    <<
    <<"r", "e", "s", "t", "r", "i", "c", "t", "i", "o", "n">>,
    <<"p", "r", "o", "h", "i", "b", "i", "t", "e", "d">>,
    <<"f", "o", "r", "b", "i", "d", "d", "e", "n">>,
    <<"d", "o", "n", ANY, "t">>, <<"a", "v", "o", "i", "d">>,
    <<"n", "e", "v", "e", "r">>,
    <<"q", "u", "a", "l", "i", "t", "y", ANY, "g", "a", "t", "e">>,
    <<"c", "h", "e", "c", "k", "l", "i", "s", "t">> >>

(* patterns.py:24-26 *)
TONE_HEADERS ==
    <<
    <<"t", "o", "n", "e">>,
    <<"p", "e", "r", "s", "o", "n", "a", "l", "i", "t", "y">>,
    <<"s", "t", "y", "l", "e">>, <<"v", "o", "i", "c", "e">>,
    <<"c", "h", "a", "r", "a", "c", "t", "e", "r">>,
    <<"p", "e", "r", "s", "o", "n", "a">>,
    <<"c", "o", "m", "m", "u", "n", "i", "c", "a", "t", "i", "o", "n">>,
    <<"a", "p", "p", "r", "o", "a", "c", "h">> >>

(* patterns.py:29-31 *)
SEQUENCE_HEADERS ==
    <<
    <<"s", "t", "e", "p">>, <<"s", "e", "q", "u", "e", "n", "c", "e">>,
    <<"w", "o", "r", "k", "f", "l", "o", "w">>,
    <<"p", "r", "o", "c", "e", "d", "u", "r", "e">>,
    <<"p", "r", "o", "c", "e", "s", "s">>, <<"a", "f", "t", "e", "r">>,
    <<"b", "e", "f", "o", "r", "e">>, <<"h", "o", "w", ANY, "t", "o">> >>

(* patterns.py:34-36 *)
ZONE_HEADERS ==
    <<
    <<"b", "o", "u", "n", "d", "a", "r">>, <<"s", "c", "o", "p", "e">>,
    <<"z", "o", "n", "e">>, <<"p", "a", "t", "h">>,
    <<"w", "o", "r", "k", "s", "p", "a", "c", "e">>,
    <<"d", "i", "r", "e", "c", "t", "o", "r", "y">>,
    <<"f", "o", "l", "d", "e", "r">> >>

AND_CONNECTOR_RE ==
    <<
    <<"a", "n", "d">>, <<"a", "l", "s", "o">>,
    <<"a", "s", " ", "w", "e", "l", "l", " ", "a", "s">>,
    <<"a", "l", "o", "n", "g", " ", "w", "i", "t", "h">>,
    <<"p", "l", "u", "s">> >>

OR_CONNECTOR_RE ==
    <<
    <<"o", "r">>,
    <<"a", "l", "t", "e", "r", "n", "a", "t", "i", "v", "e", "l", "y">> >>

FILLER_WORDS ==
    <<
    <<"p", "l", "e", "a", "s", "e">>,
    <<"b", "a", "s", "i", "c", "a", "l", "l", "y">>,
    <<"e", "s", "s", "e", "n", "t", "i", "a", "l", "l", "y">>,
    <<"s", "i", "m", "p", "l", "y">>, <<"j", "u", "s", "t">>,
    <<"t", "h", "a", "t", " ", "i", "s">>,
    <<"i", "n", " ", "o", "r", "d", "e", "r", " ", "t", "o">>,
    <<"m", "a", "k", "e", " ", "s", "u", "r", "e", " ", "t", "o">>,
    <<"b", "e", " ", "s", "u", "r", "e", " ", "t", "o">>,
    <<"i", "t", " ", "i", "s", " ", "i", "m", "p", "o", "r", "t", "a", "n", "t", " ", "t", "o">>,
    <<"y", "o", "u", " ", "s", "h", "o", "u", "l", "d">>,
    <<"y", "o", "u", " ", "m", "u", "s", "t">>,
    <<"w", "e", " ", "n", "e", "e", "d", " ", "t", "o">>,
    <<"w", "e", " ", "s", "h", "o", "u", "l", "d">>,
    <<"t", "h", "e", "r", "e", " ", "i", "s">>,
    <<"t", "h", "e", "r", "e", " ", "a", "r", "e">>,
    <<"t", "h", "i", "s", " ", "i", "s">>,
    <<"t", "h", "a", "t", " ", "a", "r", "e">>,
    <<"w", "h", "i", "c", "h", " ", "i", "s">>,
    <<"w", "h", "i", "c", "h", " ", "a", "r", "e">>,
    <<"i", "n", " ", "t", "h", "i", "s", " ", "c", "a", "s", "e">>,
    <<"a", "t", " ", "t", "h", "i", "s", " ", "p", "o", "i", "n", "t">>,
    <<"f", "o", "r", " ", "t", "h", "i", "s", " ", "p", "u", "r", "p", "o", "s", "e">> >>

ARTICLES_RE ==
    <<
    <<"a">>, <<"a", "n">>, <<"t", "h", "e">> >>

PRONOUNS_RE ==
    <<
    <<"y", "o", "u">>, <<"y", "o", "u", "r">>, <<"y", "o", "u", "r", "s">>,
    <<"w", "e">>, <<"o", "u", "r">>, <<"t", "h", "e", "y">>,
    <<"t", "h", "e", "i", "r">>, <<"t", "h", "e", "m">>, <<"i", "t">>,
    <<"i", "t", "s">>, <<"t", "h", "i", "s">>, <<"t", "h", "a", "t">>,
    <<"t", "h", "e", "s", "e">>, <<"t", "h", "o", "s", "e">>,
    <<"w", "h", "i", "c", "h">>, <<"w", "h", "o">>, <<"w", "h", "o", "m">>,
    <<"w", "h", "o", "s", "e">> >>

VERBOSE_PHRASES == <<
    [alts |-> <<<<"f", "o", "r", " ", "e", "x", "a", "m", "p", "l", "e">>>>, repl |-> <<"e", ".", "g", ".">>, spaces |-> FALSE],
    [alts |-> <<<<"f", "o", "r", " ", "i", "n", "s", "t", "a", "n", "c", "e">>>>, repl |-> <<"e", ".", "g", ".">>, spaces |-> FALSE],
    [alts |-> <<<<"s", "u", "c", "h", " ", "a", "s">>>>, repl |-> <<"e", ".", "g", ".">>, spaces |-> FALSE],
    [alts |-> <<<<"i", "n", " ", "o", "r", "d", "e", "r", " ", "t", "o">>>>, repl |-> <<"t", "o">>, spaces |-> FALSE],
    [alts |-> <<<<"s", "o", " ", "t", "h", "a", "t">>>>, repl |-> <<"s", "o">>, spaces |-> FALSE],
    [alts |-> <<<<"a", "s", " ", "w", "e", "l", "l", " ", "a", "s">>>>, repl |-> <<"+">>, spaces |-> FALSE],
    [alts |-> <<<<"a", "l", "o", "n", "g", " ", "w", "i", "t", "h">>>>, repl |-> <<"+">>, spaces |-> FALSE],
    [alts |-> <<<<"i", "n", " ", "a", "d", "d", "i", "t", "i", "o", "n", " ", "t", "o">>>>, repl |-> <<"+">>, spaces |-> FALSE],
    [alts |-> <<<<"w", "i", "t", "h", " ", "r", "e", "s", "p", "e", "c", "t", " ", "t", "o">>>>, repl |-> <<"r", "e", ":">>, spaces |-> FALSE],
    [alts |-> <<<<"w", "i", "t", "h", " ", "r", "e", "g", "a", "r", "d", " ", "t", "o">>>>, repl |-> <<"r", "e", ":">>, spaces |-> FALSE],
    [alts |-> <<<<"r", "e", "g", "a", "r", "d", "i", "n", "g">>>>, repl |-> <<"r", "e", ":">>, spaces |-> FALSE],
    [alts |-> <<<<"i", "s", " ", "r", "e", "q", "u", "i", "r", "e", "d">>>>, repl |-> <<"r", "e", "q">>, spaces |-> FALSE],
    [alts |-> <<<<"a", "r", "e", " ", "r", "e", "q", "u", "i", "r", "e", "d">>>>, repl |-> <<"r", "e", "q">>, spaces |-> FALSE],
    [alts |-> <<<<"i", "s", " ", "n", "o", "t">>>>, repl |-> <<"!">>, spaces |-> FALSE],
    [alts |-> <<<<"a", "r", "e", " ", "n", "o", "t">>>>, repl |-> <<"!">>, spaces |-> FALSE],
    [alts |-> <<<<"d", "o", " ", "n", "o", "t">>>>, repl |-> <<"!", "!">>, spaces |-> FALSE],
    [alts |-> <<<<"s", "h", "o", "u", "l", "d", " ", "n", "o", "t">>>>, repl |-> <<"!", "!">>, spaces |-> FALSE],
    [alts |-> <<<<"m", "u", "s", "t", " ", "n", "o", "t">>>>, repl |-> <<"!", "!">>, spaces |-> FALSE],
    [alts |-> <<<<"c", "a", "n", " ", "n", "o", "t">>>>, repl |-> <<"!", "!">>, spaces |-> FALSE],
    [alts |-> <<<<"c", "a", "n", "n", "o", "t">>>>, repl |-> <<"!", "!">>, spaces |-> FALSE],
    [alts |-> <<<<"s", "h", "o", "u", "l", "d", " ", "b", "e">>>>, repl |-> <<"=", ">">>, spaces |-> FALSE],
    [alts |-> <<<<"n", "e", "e", "d", "s", " ", "t", "o", " ", "b", "e">>>>, repl |-> <<"=", ">">>, spaces |-> FALSE],
    [alts |-> <<<<"h", "a", "s", " ", "t", "o", " ", "b", "e">>>>, repl |-> <<"=", ">">>, spaces |-> FALSE],
    [alts |-> <<<<"w", "h", "e", "n", " ", "p", "o", "s", "s", "i", "b", "l", "e">>>>, repl |-> <<"[", "p", "o", "s", "s", "i", "b", "l", "e", "]">>, spaces |-> FALSE],
    [alts |-> <<<<"w", "h", "e", "r", "e", " ", "a", "p", "p", "r", "o", "p", "r", "i", "a", "t", "e">>>>, repl |-> <<"[", "a", "p", "p", "r", "o", "p", "r", "i", "a", "t", "e", "]">>, spaces |-> FALSE],
    [alts |-> <<<<"w", "h", "e", "r", "e", " ", "n", "e", "e", "d", "e", "d">>>>, repl |-> <<"[", "n", "e", "e", "d", "e", "d", "]">>, spaces |-> FALSE],
    [alts |-> <<<<"i", "f", " ", "n", "e", "e", "d", "e", "d">>>>, repl |-> <<"[", "n", "e", "e", "d", "e", "d", "]">>, spaces |-> FALSE],
    [alts |-> <<<<"i", "f", " ", "a", "p", "p", "l", "i", "c", "a", "b", "l", "e">>>>, repl |-> <<"[", "a", "p", "p", "l", "i", "c", "a", "b", "l", "e", "]">>, spaces |-> FALSE],
    [alts |-> <<<<"w", "h", "e", "n", " ", "r", "e", "l", "e", "v", "a", "n", "t">>>>, repl |-> <<"[", "r", "e", "l", "e", "v", "a", "n", "t", "]">>, spaces |-> FALSE],
    [alts |-> <<<<"i", "f", " ", "r", "e", "l", "e", "v", "a", "n", "t">>>>, repl |-> <<"[", "r", "e", "l", "e", "v", "a", "n", "t", "]">>, spaces |-> FALSE],
    [alts |-> <<<<"a", "t", " ", "l", "e", "a", "s", "t">>>>, repl |-> <<">", "=">>, spaces |-> FALSE],
    [alts |-> <<<<"a", "t", " ", "m", "i", "n", "i", "m", "u", "m">>>>, repl |-> <<">", "=">>, spaces |-> FALSE],
    [alts |-> <<<<"a", "t", " ", "m", "o", "s", "t">>>>, repl |-> <<"<", "=">>, spaces |-> FALSE],
    [alts |-> <<<<"m", "o", "r", "e", " ", "t", "h", "a", "n">>>>, repl |-> <<">">>, spaces |-> FALSE],
    [alts |-> <<<<"l", "e", "s", "s", " ", "t", "h", "a", "n">>>>, repl |-> <<"<">>, spaces |-> FALSE],
    [alts |-> <<<<"g", "r", "e", "a", "t", "e", "r", " ", "t", "h", "a", "n">>>>, repl |-> <<">">>, spaces |-> FALSE],
    [alts |-> <<<<"r", "e", "s", "u", "l", "t", "s", " ", "i", "n">>, <<"r", "e", "s", "u", "l", "t", " ", "i", "n">>>>, repl |-> <<"=", ">">>, spaces |-> FALSE],
    [alts |-> <<<<"l", "e", "a", "d", "s", " ", "t", "o">>, <<"l", "e", "a", "d", " ", "t", "o">>>>, repl |-> <<"=", ">">>, spaces |-> FALSE],
    [alts |-> <<<<"s", "e", "e">>>>, repl |-> <<"@", ">">>, spaces |-> TRUE],
    [alts |-> <<<<"r", "e", "f", "e", "r", " ", "t", "o">>>>, repl |-> <<"@", ">">>, spaces |-> FALSE],
    [alts |-> <<<<"m", "a", "k", "e", " ", "s", "u", "r", "e">>>>, repl |-> <<"e", "n", "s", "u", "r", "e">>, spaces |-> FALSE],
    [alts |-> <<<<"b", "e", " ", "s", "u", "r", "e", " ", "t", "o">>>>, repl |-> <<"e", "n", "s", "u", "r", "e">>, spaces |-> FALSE] >>
(***************************************************************************)
(* tokenizer.py                                                            *)
(***************************************************************************)
(* lines 164-165: the phrase substitutions in order; a phrase that does not
   occur in the text leaves it unchanged and is stepped over *)
RECURSIVE apply_phrases(_, _)
apply_phrases(t, from) ==
    LET lt   == LowerStr(t)
        hits == {k \in from..Len(VERBOSE_PHRASES) :
                    \E j \in 1..Len(VERBOSE_PHRASES[k].alts) :
                        Contains(lt, VERBOSE_PHRASES[k].alts[j])}
        ph   == VERBOSE_PHRASES[Min(hits)]
    IN  IF hits = {} THEN t
        ELSE apply_phrases(IF ph.spaces THEN SubWordSpaces(t, ph.alts[1], ph.repl)
                           ELSE SubWords(t, ph.alts, ph.repl, FALSE),
                           Min(hits) + 1)

(* re.sub(r"\b" + re.escape(full) + r"\b", abbr, text, flags=re.I) *)
AbbrevAt(s, ls, full, i) ==
    /\ MatchAt(ls, full, i)
    /\ WordBoundary(s, i)
    /\ WordBoundary(s, i + Len(full))

RECURSIVE abbreviate_from(_, _, _, _, _)
abbreviate_from(s, ls, full, abbr, i) ==
    LET hits == {j \in i..(Len(s) + 1) : AbbrevAt(s, ls, full, j)}
        j    == Min(hits)
    IN  IF hits = {} THEN SubSeq(s, i, Len(s))
        ELSE IF full # <<>>
        THEN SubSeq(s, i, j - 1) \o abbr \o abbreviate_from(s, ls, full, abbr, j + Len(full))
        ELSE SubSeq(s, i, j - 1) \o abbr
             \o (IF j <= Len(s) THEN <<s[j]>> ELSE <<>>)
             \o abbreviate_from(s, ls, full, abbr, j + 1)

(* lines 212-216: the substitutions in sorted order; an entry whose key does
   not occur in the text leaves it unchanged and is stepped over *)
RECURSIVE abbreviate_entries(_, _, _)
abbreviate_entries(t, entries, last) ==
    LET lt == LowerStr(t)
        k  == NextEntry(entries, last, LAMBDA e : Contains(lt, LowerStr(entries[e][1])))
    IN  IF k = 0 THEN t
        ELSE abbreviate_entries(abbreviate_from(t, lt, LowerStr(entries[k][1]),
                                                entries[k][2], 1),
                                entries, k)

apply_abbreviations(t, abbrevs) == abbreviate_entries(t, abbrevs, 0)

(* _TRAILING_FLUFF  \s*[.;,]+\s*$  matches from position s *)
FluffAt(t, s) ==
    LET p == SkipSpace(t, s)
        e == SkipSet(t, p, {".", ";", ","})
    IN  e > p /\ SkipSpace(t, e) > Len(t)

strip_trailing_fluff(t) ==
    LET starts == {s \in 1..Len(t) : FluffAt(t, s)}
    IN  IF starts = {} THEN t ELSE SubSeq(t, 1, Min(starts) - 1)

(* _MULTI_OPERATORS.sub(r"\1", text) with the pattern ([+|;])\1+ *)
collapse_operators(s) ==
    LET kept == Kept(s, LAMBDA k : s[k] \in {"+", "|", ";"} /\ k < Len(s) /\ s[k + 1] = s[k])
    IN  SeqOf([n \in 1..Len(kept) |-> s[kept[n]]])

(* lines 164-197, one substitution at a time *)
fragment_step(t, k, abbrevs) ==
    CASE k = 1  -> apply_phrases(t, 1)
      [] k = 2  -> SubWords(t, FILLER_WORDS, <<>>, FALSE)
      [] k = 3  -> SubWords(t, ARTICLES_RE, <<>>, TRUE)
      [] k = 4  -> SubWords(t, PRONOUNS_RE, <<>>, TRUE)
      [] k = 5  -> SubWords(t, AND_CONNECTOR_RE, <<"+">>, FALSE)
      [] k = 6  -> SubWords(t, OR_CONNECTOR_RE, <<"|">>, FALSE)
      [] k = 7  -> apply_abbreviations(t, abbrevs)
      [] k = 8  -> strip_trailing_fluff(t)
      [] k = 9  -> collapse_whitespace(t)
      [] k = 10 -> SubOpSpacing(t, <<"+">>)
      [] k = 11 -> SubOpSpacing(t, <<"|">>)
      [] k = 12 -> SubOpSpacing(t, <<"-", ">">>)
      [] k = 13 -> SubOpSpacing(t, <<"=", ">">>)
      [] k = 14 -> SubOpSpacing(t, <<":", ":">>)
      [] k = 15 -> collapse_operators(t)

(* the substitutions from the k-th on; every one of them leaves an empty
   text empty *)
RECURSIVE fragment_steps(_, _, _)
fragment_steps(t, k, abbrevs) ==
    IF t = <<>> \/ k > 15 THEN t
    ELSE fragment_steps(fragment_step(t, k, abbrevs), k + 1, abbrevs)

compress_fragment(t, abbrevs) ==
    StripChars(fragment_steps(t, 1, abbrevs), {" ", "+", "|", ";", ",", "."})

(* what compress_line writes before, between and after the one or two
   fragments it compresses; a line with one fragment has it second *)
Shape(pre, first, mid, second) ==
    [pre |-> pre, first |-> first, mid |-> mid, second |-> second]

line_shape(t) ==
    LET cond == CONDITIONAL_RE(t)
        neg  == NEGATION_LINE_RE(t)
        imp  == IMPERATIVE_RE(t)
        pref == PREFER_RE(t)
        kv   == BOLD_KV_RE(t)
        num  == NUMBERED_RE(t)
        Rest(g) == RStripChars(Strip(g), {"."})
    IN  IF cond.ok
        THEN Shape(<<"?">>, RStripChars(Strip(cond.g1), {":"}), <<"-", ">">>, Rest(cond.g2))
        ELSE IF neg.ok THEN Shape(<<"!", "!">>, <<>>, <<>>, Rest(neg.g1))
        ELSE IF imp.ok THEN Shape(<<"*">>, <<>>, <<>>, Rest(imp.g1))
        ELSE IF pref.ok
        THEN Shape(<<"p", "r", "e", "f", "e", "r", "(">>, Strip(pref.g1), <<")", ">">>,
                   Rest(pref.g2))
        ELSE IF kv.ok THEN Shape(<<>>, Strip(kv.g1), <<":", ":">>, Rest(kv.g2))
        ELSE IF num.ok THEN Shape(<<"#">> \o num.g1 \o <<" ">>, <<>>, <<>>, Rest(num.g2))
        ELSE Shape(<<>>, <<>>, <<>>, t)

compress_shape(shape, abbrevs) ==
    LET fragments == [k \in 1..2 |->
                         compress_fragment(IF k = 1 THEN shape.first ELSE shape.second,
                                           abbrevs)]
    IN  shape.pre \o fragments[1] \o shape.mid \o fragments[2]

compress_line(line, encode_map) ==
    IF Strip(line) = <<>> THEN <<>>
    ELSE compress_shape(line_shape(strip_markdown_formatting(strip_bullet_prefix(line))),
                        IF encode_map = <<>> THEN ENCODE_MAP ELSE encode_map)

(***************************************************************************)
(* patterns.py: classify_section                                           *)
(***************************************************************************)
CountLines(lines, Test(_)) == Cardinality({k \in 1..Len(lines) : Test(lines[k])})

(* mutant: the negation family is looked for before the others *)
classify_section_NegationFirst(header, lines) ==
    LET header_lower == LowerStr(header)
    IN  IF SearchAny(header_lower, NEGATION_HEADERS) THEN "N"
        ELSE IF SearchAny(header_lower, ZONE_HEADERS) THEN "Z"
        ELSE IF SearchAny(header_lower, TONE_HEADERS) THEN "T"
        ELSE IF SearchAny(header_lower, PRIORITY_HEADERS) THEN "P"
        ELSE IF SearchAny(header_lower, SEQUENCE_HEADERS) THEN "S"
        ELSE "R"

(* mutant: the thresholds are reached at exactly 60% and 40% *)
classify_section_AtLeast(header, lines) ==
    LET header_lower == LowerStr(header)
        negation_count == CountLines(lines, LAMBDA l : NEGATION_LINE_RE(Strip(l)).ok)
        numbered_count == CountLines(lines, LAMBDA l : NUMBERED_RE(Strip(l)).ok)
        total == CountLines(lines, LAMBDA l : Strip(l) # <<>>)
    IN  IF SearchAny(header_lower, ZONE_HEADERS) THEN "Z"
        ELSE IF SearchAny(header_lower, TONE_HEADERS) THEN "T"
        ELSE IF SearchAny(header_lower, PRIORITY_HEADERS) THEN "P"
        ELSE IF SearchAny(header_lower, SEQUENCE_HEADERS) THEN "S"
        ELSE IF SearchAny(header_lower, NEGATION_HEADERS) THEN "N"
        ELSE IF total = 0 THEN "R"
        ELSE IF negation_count > 0 /\ 5 * negation_count >= 3 * total THEN "N"
        ELSE IF numbered_count > 0 /\ 5 * numbered_count >= 3 * total THEN "P"
        ELSE IF numbered_count > 0 /\ 5 * numbered_count >= 2 * total THEN "S"
        ELSE "R"

classify_section(header, lines) ==
    LET header_lower == LowerStr(header)
        negation_count == CountLines(lines, LAMBDA l : NEGATION_LINE_RE(Strip(l)).ok)
        numbered_count == CountLines(lines, LAMBDA l : NUMBERED_RE(Strip(l)).ok)
        total == CountLines(lines, LAMBDA l : Strip(l) # <<>>)
    IN  IF SearchAny(header_lower, ZONE_HEADERS) THEN "Z"
        ELSE IF SearchAny(header_lower, TONE_HEADERS) THEN "T"
        ELSE IF SearchAny(header_lower, PRIORITY_HEADERS) THEN "P"
        ELSE IF SearchAny(header_lower, SEQUENCE_HEADERS) THEN "S"
        ELSE IF SearchAny(header_lower, NEGATION_HEADERS) THEN "N"
        ELSE IF total = 0 THEN "R"
        ELSE IF negation_count > 0 /\ 5 * negation_count > 3 * total THEN "N"
        ELSE IF numbered_count > 0 /\ 5 * numbered_count > 3 * total THEN "P"
        ELSE IF numbered_count > 0 /\ 5 * numbered_count > 2 * total THEN "S"
        ELSE "R"

(***************************************************************************)
(* encoder.py                                                              *)
(***************************************************************************)
Section(has_header, header, lines) ==
    [has_header |-> has_header, header |-> header, lines |-> lines]

(* no section handed to classify_section *)
NoSection == Section(FALSE, <<>>, <<>>)

RECURSIVE split_sections_from(_, _, _, _)
split_sections_from(lines, i, current, sections) ==
    LET pending == IF current.has_header \/ current.lines # <<>>
                   THEN Append(sections, current) ELSE sections
        header  == extract_section_header(lines[i])
    IN  IF i > Len(lines) THEN pending
        ELSE IF header.ok
        THEN split_sections_from(lines, i + 1, Section(TRUE, header.g2, <<>>), pending)
        ELSE split_sections_from(lines, i + 1,
                                 Section(current.has_header, current.header,
                                         Append(current.lines, lines[i])),
                                 sections)

split_sections(t) == split_sections_from(SplitLines(t), 1, Section(FALSE, <<>>, <<>>), <<>>)

(* str(counter) *)
RECURSIVE IntToStr(_)
IntToStr(n) ==
    LET digit == <<"0", "1", "2", "3", "4", "5", "6", "7", "8", "9">>[(n % 10) + 1]
    IN  IF n < 10 THEN <<digit>> ELSE Append(IntToStr(n \div 10), digit)

(* lines 178-182: path_counts, a dict in insertion order *)
RECURSIVE count_paths(_, _)
count_paths(paths, path_counts) ==
    IF paths = <<>> THEN path_counts
    ELSE LET p == Head(paths)
             n == IF p \in DictKeys(path_counts) THEN DictGet(path_counts, p, 0) ELSE 0
         IN  count_paths(Tail(paths),
                         IF Len(p) >= 30 THEN DictSet(path_counts, p, n + 1) ELSE path_counts)

(* sorted(path_counts.items(), key=lambda x: -x[1]), stable *)
RECURSIVE sorted_by_count_from(_, _)
sorted_by_count_from(entries, n) ==
    IF n < 1 THEN <<>>
    ELSE SelectSeq(entries, LAMBDA e : e[2] = n) \o sorted_by_count_from(entries, n - 1)

sorted_by_count(entries) ==
    sorted_by_count_from(entries, Max({0} \cup {entries[k][2] : k \in 1..Len(entries)}))

path_alias(path) ==
    LET parts == Split(RStripChars(path, {"/"}), "/")
        last  == LowerStr(parts[Len(parts)])
        named == Replace(Replace(last, <<".">>, <<"-">>), <<" ">>, <<"-">>)
    IN  SubSeq(named, 1, Min({12, Len(named)}))

RECURSIVE alias_paths(_, _, _)
alias_paths(entries, aliases, counter) ==
    IF entries = <<>> THEN aliases
    ELSE IF Head(entries)[2] < 2 THEN alias_paths(Tail(entries), aliases, counter)
    ELSE LET alias == path_alias(Head(entries)[1])
             taken == alias \in {aliases[k][2] : k \in 1..Len(aliases)}
         IN  alias_paths(Tail(entries),
                         DictSet(aliases, Head(entries)[1],
                                 IF taken THEN alias \o IntToStr(counter) ELSE alias),
                         counter + 1)

extract_path_aliases(t) ==
    alias_paths(sorted_by_count(count_paths(PATH_REF_RE(t), <<>>)), <<>>, 0)

RECURSIVE const_lines(_)
const_lines(path_aliases) ==
    IF path_aliases = <<>> THEN <<>>
    ELSE <<(<<"$">> \o Head(path_aliases)[2] \o <<":", ":">> \o Head(path_aliases)[1])>>
         \o const_lines(Tail(path_aliases))

RECURSIVE replace_paths(_, _)
replace_paths(compressed, path_aliases) ==
    IF path_aliases = <<>> THEN compressed
    ELSE replace_paths(Replace(compressed, Head(path_aliases)[1],
                               <<"$">> \o Head(path_aliases)[2]),
                       Tail(path_aliases))

compress_lines(content_lines, abbrevs, path_aliases) ==
    SelectSeq(SeqOf([k \in 1..Len(content_lines) |->
                        replace_paths(compress_line(content_lines[k], abbrevs),
                                      path_aliases)]),
              LAMBDA compressed : compressed # <<>>)

Prefix(s, n) == SubSeq(s, 1, Min({n, Len(s)}))

(* lines 107-112: a block only when a compressed line is left *)
block_of_lines(sigil, block_id, compressed_lines) ==
    IF compressed_lines = <<>> THEN <<>>
    ELSE <<Block(sigil, block_id, compressed_lines, FALSE)>>

(* lines 84-94: the sigil of a section, 'Z' when most lines hold a path *)
section_sigil(header, content_lines, path_count) ==
    IF path_count > 0 /\ 2 * path_count > Len(content_lines) THEN "Z"
    ELSE classify_section(header, content_lines)

content_block(header, content_lines, abbrevs, path_aliases) ==
    IF content_lines = <<>> THEN <<>>
    ELSE block_of_lines(section_sigil(header, content_lines,
                                      CountLines(content_lines,
                                                 LAMBDA l : PATH_REF_RE(l) # <<>>)),
                        Prefix(slugify(header), 50),
                        compress_lines(content_lines, abbrevs, path_aliases))

(* lines 72-112: the block of one section, none when the section is skipped *)
section_blocks(section, abbrevs, path_aliases) ==
    IF ~section.has_header THEN <<>>
    ELSE content_block(section.header,
                       SelectSeq(section.lines, LAMBDA l : Strip(l) # <<>>),
                       abbrevs, path_aliases)

RECURSIVE sections_blocks(_, _, _)
sections_blocks(sections, abbrevs, path_aliases) ==
    IF sections = <<>> THEN <<>>
    ELSE section_blocks(Head(sections), abbrevs, path_aliases)
         \o sections_blocks(Tail(sections), abbrevs, path_aliases)

first_header(sections) ==
    LET headed == SelectSeq(sections, LAMBDA s : s.has_header)
    IN  IF headed = <<>> THEN <<"U", "n", "t", "i", "t", "l", "e", "d">> ELSE headed[1].header

(* None and "" are both <<>>: encode tests 'if not title', 'if not doc_id' *)
encode(t, doc_id, title, source, custom_abbrevs, timestamp) ==
    LET abbrevs  == DictMerge(ENCODE_MAP, custom_abbrevs)
        sections == split_sections(t)
        title1   == IF title = <<>> THEN first_header(sections) ELSE title
        doc_id1  == IF doc_id = <<>> THEN Prefix(slugify(title1), 40) ELSE doc_id
        path_aliases == extract_path_aliases(t)
        constants == IF path_aliases = <<>> THEN <<>>
                     ELSE <<Block("C", <<"p", "a", "t", "h", "s">>,
                                  const_lines(path_aliases), FALSE)>>
    IN  format_document(CPFDocument(VERSION,
                                    Metadata(doc_id1, title1, source, timestamp),
                                    constants \o sections_blocks(sections, abbrevs, path_aliases)))

(***************************************************************************)
(* Inputs: CPF texts built from three anchor lines and a bounded body.     *)
(***************************************************************************)
GoodLine2 == <<"M", "|", "a", "|", "b", "|", "c", "|", "d">>

Line1Set == {FORMAT_HEADER, <<"C", "P", "F">>}

Line2Set == {GoodLine2, <<"M", "|", "a", "|", "b">>, <<"a">>}

Line3Set == {SECTION_SEPARATOR, <<"-", "-">>}

BodyLineSet == {<<>>,
                <<"@", "R", ":", "k">>,
                <<"@", "B", ":", "k">>,
                <<"@", "Q", ":", "z">>,
                <<"@", "R", ":">>,
                HEREDOC_OPEN,
                HEREDOC_CLOSE,
                <<" ", "x", " ">>}

RECURSIVE JoinLines(_)
JoinLines(lines) ==
    IF lines = <<>> THEN <<>> ELSE Head(lines) \o <<NL>> \o JoinLines(Tail(lines))

SeqsUpTo(S, n) == UNION {[1..k -> S] : k \in 0..n}

HeadSet ==
    {<<>>}
    \cup {<<a>> : a \in Line1Set}
    \cup {<<a, b>> : a \in Line1Set, b \in Line2Set}

(* three anchor lines: all good, one of them wrong, or lines 2 and 3 both wrong *)
FullHeadSet ==
    {<<a, GoodLine2, SECTION_SEPARATOR>> : a \in Line1Set}
    \cup {<<FORMAT_HEADER, b, SECTION_SEPARATOR>> : b \in Line2Set}
    \cup {<<FORMAT_HEADER, b, <<"-", "-">> >> : b \in {GoodLine2, <<"a">>}}

TextSet ==
    {JoinLines(h) : h \in HeadSet}
    \cup {JoinLines(h \o b) : h \in FullHeadSet, b \in SeqsUpTo(BodyLineSet, MaxBody)}

(***************************************************************************)
(* Specification: a caller hands one text to parse and to validate.        *)
(***************************************************************************)
(* encode's keyword arguments (None and "" are both <<>>) and the timestamp  *)
(* datetime.now gives it *)
Options(doc_id, title, source, timestamp) ==
    [doc_id |-> doc_id, title |-> title, source |-> source, timestamp |-> timestamp]

NoOptions == Options(<<>>, <<>>, <<>>, <<>>)

(* the dict objects of a run, by the name the program knows them under:    *)
(* the two module-level tables, the caller's custom tables, and the dicts  *)
(* the functions build (abbrevs of encode and decode_ast, the pair         *)
(* merge_abbreviations returns)                                            *)
Tables(enc, dec, custom_encode, custom_decode) ==
    [ENCODE_MAP |-> enc, DECODE_MAP |-> dec,
     custom_encode |-> custom_encode, custom_decode |-> custom_decode,
     abbrevs |-> <<>>, merged_encode |-> <<>>, merged_decode |-> <<>>]

(* after the module is imported *)
LoadedTables == Tables(ENCODE_MAP, DECODE_MAP, <<>>, <<>>)

Init ==
    /\ text \in TextSet
    /\ done = {}
    /\ parse_result = ParseOk(NoDocument)
    /\ issues = <<>>
    /\ doc = NoDocument
    /\ custom = <<>>
    /\ decoded = DecodeOk(<<>>)
    /\ english = <<>>
    /\ opts = NoOptions
    /\ tables = LoadedTables
    /\ args = NoSection

Parse ==
    /\ "parse" \notin done
    /\ parse_result' = parse(text)
    /\ done' = done \cup {"parse"}
    /\ UNCHANGED <<args, text, issues, doc, custom, decoded, english, opts, tables>>

Validate ==
    /\ "validate" \notin done
    /\ issues' = validate(text)
    /\ done' = done \cup {"validate"}
    /\ UNCHANGED <<args, text, parse_result, doc, custom, decoded, english, opts, tables>>

Next == Parse \/ Validate

Spec == Init /\ [][Next]_vars

(***************************************************************************)
(* Specification: a caller formats a Document and parses the text back.    *)
(* The Documents satisfy the Document Model invariants: every block has a  *)
(* non-empty id, one of the nine sigils, and is_heredoc exactly on blobs.  *)
(***************************************************************************)
FieldSet == {<<"a">>, <<>>}

ContentLineSet == {<<"x", " ">>, <<>>, <<"@", "R", ":", "z">>, HEREDOC_CLOSE}

BlockSet ==
    {Block(sg, <<"k">>, ls, sg = "B") :
        sg \in {"R", "B"}, ls \in SeqsUpTo(ContentLineSet, MaxBlockLines)}

DocumentSet ==
    {CPFDocument(VERSION, Metadata(<<"d">>, <<"t">>, src, <<"0">>), bs) :
        src \in FieldSet, bs \in SeqsUpTo(BlockSet, MaxBlocks)}

InitFormat ==
    /\ doc \in DocumentSet
    /\ text = <<>>
    /\ done = {}
    /\ parse_result = ParseOk(NoDocument)
    /\ issues = <<>>
    /\ custom = <<>>
    /\ decoded = DecodeOk(<<>>)
    /\ english = <<>>
    /\ opts = NoOptions
    /\ tables = LoadedTables
    /\ args = NoSection

Format ==
    /\ "format" \notin done
    /\ text' = format_document(doc)
    /\ done' = done \cup {"format"}
    /\ UNCHANGED <<args, parse_result, issues, doc, custom, decoded, english, opts, tables>>

ParseFormatted == "format" \in done /\ Parse

ValidateFormatted == "format" \in done /\ Validate

NextFormat == Format \/ ParseFormatted \/ ValidateFormatted

SpecFormat == InitFormat /\ [][NextFormat]_vars

(***************************************************************************)
(* Specification: a caller decodes a Document, either directly with        *)
(* decode_ast or as CPF text (format_document, then decode).               *)
(***************************************************************************)
NotationLineSet == {<<"$", "p", "+", "s", "e", "c">>, <<>>}

DecodeBlockSet ==
    {Block("B", <<"k">>, ls, TRUE) : ls \in SeqsUpTo(NotationLineSet, MaxBlockLines)}
    \cup {Block("R", <<"k", "-", "z">>, ls, FALSE) :
              ls \in SeqsUpTo(NotationLineSet, MaxBlockLines)}
    \cup {Block("C", <<"c">>, <<<<"$", "p", ":", ":", "v">>>>, FALSE)}

CustomDecodeSet == {<<>>, << <<<<"s", "e", "c">>, <<"S">>>> >>}

InitDecode ==
    /\ doc \in {CPFDocument(VERSION, Metadata(<<"d">>, <<"t">>, <<>>, <<"0">>), bs) :
                    bs \in SeqsUpTo(DecodeBlockSet, MaxBlocks)}
    /\ custom \in CustomDecodeSet
    /\ text = <<>>
    /\ done = {}
    /\ parse_result = ParseOk(NoDocument)
    /\ issues = <<>>
    /\ decoded = DecodeOk(<<>>)
    /\ english = <<>>
    /\ opts = NoOptions
    /\ tables = LoadedTables
    /\ args = NoSection

DecodeAst ==
    /\ done \cap {"decode", "decode_ast"} = {}
    /\ decoded' = DecodeOk(decode_ast(doc, custom))
    /\ done' = done \cup {"decode_ast"}
    /\ UNCHANGED <<args, text, parse_result, issues, doc, custom, english, opts, tables>>

DecodeText ==
    /\ "format" \in done
    /\ done \cap {"decode", "decode_ast"} = {}
    /\ decoded' = decode(text, custom)
    /\ done' = done \cup {"decode"}
    /\ UNCHANGED <<args, text, parse_result, issues, doc, custom, english, opts, tables>>

NextDecode == Format \/ DecodeAst \/ DecodeText

SpecDecode == InitDecode /\ [][NextDecode]_vars

(***************************************************************************)
(* Specification: a caller encodes a markdown text and hands the CPF text  *)
(* it gets to validate and to parse.                                       *)
(***************************************************************************)
MaxEnglishLines == 3

EnglishLineSet ==
    {<<"#", "#", " ", "H">>,
     <<"#", "#", " ", "*", "*">>,
     <<"@", "Q", ":", "k">>,
     <<"-", " ", "@", "B", ":", "k">>,
     <<"N", "e", "v", "e", "r", " ", "u", "s", "e", " ", "d", "o", "c", "s">>,
     <<"-", " ", "N", "e", "v", "e", "r", " ", "u", "s", "e", " ", "d", "o", "c", "s">>,
     <<>>}

(* strftime("%Y-%m-%dT%H:%M:%SZ") of the clock *)
ClockSet == {<<"2", "0", "2", "6", "-", "0", "1", "-", "0", "1", "T", "0", "0", ":", "0", "0", ":", "0", "0", "Z">>}

(* the reading one second later *)
LaterClock == <<"2", "0", "2", "6", "-", "0", "1", "-", "0", "1", "T", "0", "0", ":", "0", "0", ":", "0", "1", "Z">>

OptionSet ==
    {Options(<<>>, <<>>, <<>>, ts) : ts \in ClockSet}
    \cup {Options(<<"d">>, <<"T">>, <<"s">>, ts) : ts \in ClockSet}

CustomEncodeSet == {<<>>, << <<<<"d", "o", "c", "s">>, <<"D">>>> >>}

InitEncode ==
    /\ english \in {JoinLines(ls) : ls \in SeqsUpTo(EnglishLineSet, MaxEnglishLines)}
    /\ opts \in OptionSet
    /\ tables = LoadedTables
    /\ args = NoSection
    /\ custom \in CustomEncodeSet
    /\ text = <<>>
    /\ done = {}
    /\ parse_result = ParseOk(NoDocument)
    /\ issues = <<>>
    /\ doc = NoDocument
    /\ decoded = DecodeOk(<<>>)

(* encode may be called again with the same arguments until its text is   *)
(* parsed or validated; line 56 reads the clock, held in opts.timestamp    *)
Encode ==
    /\ done \subseteq {"encode"}
    /\ text' = encode(english, opts.doc_id, opts.title, opts.source, custom, opts.timestamp)
    /\ done' = done \cup {"encode"}
    /\ UNCHANGED <<args, parse_result, issues, doc, custom, decoded, english, opts, tables>>

ParseEncoded == "encode" \in done /\ Parse

ValidateEncoded == "encode" \in done /\ Validate

(* time passes between two calls: datetime.now gives a later reading *)
Tick ==
    /\ done = {"encode"}
    /\ opts.timestamp \in ClockSet
    /\ opts' = [opts EXCEPT !.timestamp = LaterClock]
    /\ UNCHANGED <<args, text, done, parse_result, issues, doc, custom, decoded, english, tables>>

NextEncode == Encode \/ Tick \/ ParseEncoded \/ ValidateEncoded

SpecEncode == InitEncode /\ [][NextEncode]_vars

(***************************************************************************)
(* abbreviations.py: abbreviate, expand, merge_abbreviations; and what the *)
(* calls do to the dict objects.                                           *)
(***************************************************************************)
(* the first entry whose key, lowercased, is the lowercased word *)
abbreviate_lower(word, lookup) ==
    LET hits == {k \in 1..Len(lookup) : LowerStr(lookup[k][1]) = LowerStr(word)}
    IN  IF hits = {} THEN word ELSE lookup[Min(hits)][2]

abbreviate(word, custom_table) ==
    LET lookup == IF custom_table # <<>> THEN custom_table ELSE ENCODE_MAP
    IN  IF word \in DictKeys(lookup) THEN DictGet(lookup, word, word)
        ELSE abbreviate_lower(word, lookup)

expand(abbr, custom_table) ==
    DictGet(IF custom_table # <<>> THEN custom_table ELSE DECODE_MAP, abbr, abbr)

(* lines 152-153: two new dicts *)
merge_abbreviations(tbls) ==
    [tbls EXCEPT !.merged_encode = DictMerge(tbls.ENCODE_MAP, tbls.custom_encode),
                 !.merged_decode = DictMerge(tbls.DECODE_MAP, tbls.custom_decode)]

(* encoder.py line 40: abbrevs is a new dict *)
encode_tables(tbls) ==
    [tbls EXCEPT !.abbrevs = DictMerge(tbls.ENCODE_MAP, tbls.custom_encode)]

(* mutant: abbrevs is the built-in table itself, updated in place *)
decode_ast_tables_InPlace(tbls, d) ==
    LET merged == DictMerge(DictMerge(tbls.DECODE_MAP, tbls.custom_decode), get_constants(d))
    IN  [tbls EXCEPT !.DECODE_MAP = merged, !.abbrevs = merged]

(* decoder.py lines 47-52: abbrevs is a new dict, updated with the constants *)
decode_ast_tables(tbls, d) ==
    LET made == [tbls EXCEPT !.abbrevs = DictMerge(tbls.DECODE_MAP, tbls.custom_decode)]
        constants == get_constants(d)
    IN  IF constants # <<>>
        THEN [made EXCEPT !.abbrevs = DictMerge(made.abbrevs, constants)]
        ELSE made

(* decoder.py lines 54-83: the text decode_ast builds with its abbrevs *)
decode_ast_from(d, abbrevs) ==
    RStrip(Join(<<NL>>, << <<"#", " ">> \o d.metadata.title, <<>> >>
                        \o decode_blocks(d.blocks, abbrevs))) \o <<NL>>

(***************************************************************************)
(* Specification: the module is imported, and then a caller with custom    *)
(* tables of its own calls the functions that use the tables, in any order *)
(* and any number of times.                                                *)
(***************************************************************************)
CustomEncodeTables == {<<>>, << <<<<"m", "o", "d", "u", "l", "e">>, <<"M">>>> >>}

CustomDecodeTables == {<<>>, << <<<<"m", "o", "d">>, <<"u", "n", "i", "t">>>> >>}

(* a rule block, alone and after a constant block *)
TableBlocksSet ==
    {<<Block("R", <<"k">>, <<<<"m", "o", "d", "+", "c", "f", "g">>>>, FALSE)>>,
     <<Block("C", <<"c">>, <<<<"m", "o", "d", ":", ":", "p", "a", "r", "t">>>>, FALSE),
       Block("R", <<"k">>, <<<<"m", "o", "d", "+", "c", "f", "g">>>>, FALSE)>>}

WordSet == {<<"M", "o", "d", "u", "l", "e">>, <<"m", "o", "d">>}

InitTables ==
    /\ tables \in {Tables(ENCODE_MAP, <<>>, ce, cd) :
                      ce \in CustomEncodeTables, cd \in CustomDecodeTables}
    /\ doc \in {CPFDocument(VERSION, Metadata(<<"d">>, <<"t">>, <<>>, <<"0">>), bs) :
                    bs \in TableBlocksSet}
    /\ english \in WordSet
    /\ args = NoSection
    /\ opts \in {Options(<<"d">>, <<"T">>, <<>>, ts) : ts \in ClockSet}
    /\ custom = <<>>
    /\ text = <<>>
    /\ done = {}
    /\ parse_result = ParseOk(NoDocument)
    /\ issues = <<>>
    /\ decoded = DecodeOk(<<>>)

(* abbreviations.py lines 108-113, run once when the module is imported *)
Import ==
    /\ "import" \notin done
    /\ tables' = [tables EXCEPT !.DECODE_MAP = build_decode_map(tables.ENCODE_MAP, <<>>)]
    /\ done' = {"import"}
    /\ UNCHANGED <<args, text, parse_result, issues, doc, custom, decoded, english, opts>>

CallEncode ==
    /\ "import" \in done
    /\ text' = encode(english, opts.doc_id, opts.title, opts.source,
                      tables.custom_encode, opts.timestamp)
    /\ tables' = encode_tables(tables)
    /\ done' = done \cup {"encode"}
    /\ UNCHANGED <<args, parse_result, issues, doc, custom, decoded, english, opts>>

CallDecodeAst ==
    /\ "import" \in done
    /\ tables' = decode_ast_tables(tables, doc)
    /\ decoded' = DecodeOk(decode_ast_from(doc, tables'.abbrevs))
    /\ done' = done \cup {"decode_ast"}
    /\ UNCHANGED <<args, text, parse_result, issues, doc, custom, english, opts>>

CallCompressLine ==
    /\ "import" \in done
    /\ text' = compress_line(english, tables.custom_encode)
    /\ done' = done \cup {"compress_line"}
    /\ UNCHANGED <<args, parse_result, issues, doc, custom, decoded, english, opts, tables>>

CallExpandLine ==
    /\ "import" \in done
    /\ decoded' = DecodeOk(expand_line(english, tables.DECODE_MAP, "R"))
    /\ done' = done \cup {"expand_line"}
    /\ UNCHANGED <<args, text, parse_result, issues, doc, custom, english, opts, tables>>

CallAbbreviate ==
    /\ "import" \in done
    /\ text' = abbreviate(english, tables.custom_encode)
    /\ done' = done \cup {"abbreviate"}
    /\ UNCHANGED <<args, parse_result, issues, doc, custom, decoded, english, opts, tables>>

CallExpand ==
    /\ "import" \in done
    /\ decoded' = DecodeOk(expand(english, tables.custom_decode))
    /\ done' = done \cup {"expand"}
    /\ UNCHANGED <<args, text, parse_result, issues, doc, custom, english, opts, tables>>

CallMerge ==
    /\ "import" \in done
    /\ tables' = merge_abbreviations(tables)
    /\ done' = done \cup {"merge_abbreviations"}
    /\ UNCHANGED <<args, text, parse_result, issues, doc, custom, decoded, english, opts>>

NextTables ==
    \/ Import
    \/ CallEncode
    \/ CallDecodeAst
    \/ CallCompressLine
    \/ CallExpandLine
    \/ CallAbbreviate
    \/ CallExpand
    \/ CallMerge

SpecTables == InitTables /\ [][NextTables]_vars

(***************************************************************************)
(* Calls of classify_section and compress_line on their own                *)
(***************************************************************************)
MaxSectionLines == 5

HeaderSet ==
    {<<"z", "o", "n", "e", " ", "t", "o", "n", "e">>,
     <<"t", "o", "n", "e", " ", "o", "r", "d", "e", "r">>,
     <<"o", "r", "d", "e", "r", " ", "s", "t", "e", "p">>,
     <<"s", "t", "e", "p", " ", "a", "v", "o", "i", "d">>,
     <<"n", "e", "v", "e", "r", " ", "z", "o", "n", "e">>,
     <<"S", "t", "y", "l", "e">>,
     <<"A", "V", "O", "I", "D">>,
     <<"d", "o", "n", " ", "t">>,
     <<"x">>,
     <<>>}

(* a numbered line, a negation line, a plain line and a blank line *)
SectionLineSet == {<<"1", ".", " ", "a">>, <<"N", "e", "v", "e", "r", " ", "a">>, <<"a">>, <<>>}

ArgsSet ==
    {Section(TRUE, h, ls) : h \in HeaderSet, ls \in SeqsUpTo(SectionLineSet, 1)}
    \cup {Section(TRUE, <<"x">>, ls) : ls \in SeqsUpTo(SectionLineSet, MaxSectionLines)}

ConditionalLineSet ==
    {<<"U", "n", "l", "e", "s", "s", " ", "x", ":", " ", "y">>,
     <<"I", "f", " ", "x", ":", " ", "y">>,
     <<"W", "h", "e", "n", " ", "x", ",", " ", "y">>,
     <<"U", "s", "e", " ", "x">>}

InitPatterns ==
    /\ args \in ArgsSet
    /\ english \in ConditionalLineSet
    /\ custom = <<>>
    /\ tables = LoadedTables
    /\ opts = NoOptions
    /\ text = <<>>
    /\ done = {}
    /\ parse_result = ParseOk(NoDocument)
    /\ issues = <<>>
    /\ doc = NoDocument
    /\ decoded = DecodeOk(<<>>)

(* the sigil letter returned is kept as a one-character text *)
ClassifySection ==
    /\ text' = <<classify_section(args.header, args.lines)>>
    /\ done' = {"classify_section"}
    /\ UNCHANGED <<args, parse_result, issues, doc, custom, decoded, english, opts, tables>>

CompressLine ==
    /\ text' = compress_line(english, custom)
    /\ done' = {"compress_line"}
    /\ UNCHANGED <<args, parse_result, issues, doc, custom, decoded, english, opts, tables>>

NextPatterns == ClassifySection \/ CompressLine

SpecPatterns == InitPatterns /\ [][NextPatterns]_vars

(***************************************************************************)
(* Calls of compress_line, expand_line and _expand_fragment on one line    *)
(***************************************************************************)
MaxFragment == 4

BoldLineSet ==
    {<<"*", "*", "K", ":", "*", "*", " ", "V">>,
     <<"-", " ", "*", "*", "K", ":", "*", "*", " ", "V">>,
     <<"*", "*", "K", "*", "*", ":", " ", "V">>}

NotationSet ==
    {<<"?", "!", "q", "-", ">", "r">>,
     <<"?", "q", "-", ">", "r">>,
     <<"!", "!", "q">>,
     <<"*", "q">>,
     <<"#", "1", " ", "q">>,
     <<"p", "r", "e", "f", "e", "r", "(", "q", ")", ">", "r">>,
     <<"k", ":", ":", "v">>,
     <<"@", ">", "k", ":", ":", "v">>,
     <<"@", ">", "q">>,
     <<>>,
     <<"?", "k", ":", ":", "v">>,
     <<"!", "!", "k", ":", ":", "v">>,
     <<"*", "k", ":", ":", "v">>,
     <<"#", "1", " ", "k", ":", ":", "v">>,
     <<"#", "1">>,
     <<" ", "q", " ">>,
     <<"?", "q", "-", ">", "r", ";", "s">>,
     <<"?", "q", "-", ">", "r", ";", "!", "!", "s">>,
     <<"?", "q", ";", "r", "-", ">", "s">>,
     <<"?", "!", "q", "-", ">", "r", ";", "s">>,
     <<"?", "q", "-", ">", "r", ";", " ", "!", "!", "s">>,
     <<"?", "q", ";", "r">>,
     <<"?", "!", "q", ";", "r">>,
     <<"?", "q", "-", ">", "r", ";", "s", ";", "t">>,
     <<"?", "!", "q", "+", "r", "-", ">", "s">>,
     <<"?", "!", "q", "+", "r", "-", ">", "s", ";", "t">>,
     <<"?", "!", "q", "-", ">", "r", ";", "!", "!", "s">>,
     <<"p", "r", "e", "f", "e", "r", "(", "k", ")", ">", "v", ":", ":", "w">>,
     <<"?", "!", "q">>}

(* fragments of operators, parentheses and a word that is no abbreviation *)
FragmentSet == SeqsUpTo({"q", "+", "|", "(", ")"}, MaxFragment)

InitLines ==
    /\ english \in BoldLineSet \cup NotationSet \cup FragmentSet
    /\ args = NoSection
    /\ custom = <<>>
    /\ tables = LoadedTables
    /\ opts = NoOptions
    /\ text = <<>>
    /\ done = {}
    /\ parse_result = ParseOk(NoDocument)
    /\ issues = <<>>
    /\ doc = NoDocument
    /\ decoded = DecodeOk(<<>>)

ExpandLine ==
    /\ decoded' = DecodeOk(expand_line(english, tables.DECODE_MAP, "R"))
    /\ done' = {"expand_line"}
    /\ UNCHANGED <<args, text, parse_result, issues, doc, custom, english, opts, tables>>

ExpandFragment ==
    /\ decoded' = DecodeOk(expand_fragment(english, tables.DECODE_MAP))
    /\ done' = {"expand_fragment"}
    /\ UNCHANGED <<args, text, parse_result, issues, doc, custom, english, opts, tables>>

NextLines == CompressLine \/ ExpandLine \/ ExpandFragment

SpecLines == InitLines /\ [][NextLines]_vars

(***************************************************************************)
(* Specification: a caller parses a text, formats the Document parse       *)
(* returned, and parses and validates the formatted text.                  *)
(***************************************************************************)
MaxNormBody == 4

NormLine2Set == {GoodLine2, <<"M", "|", " ", "a", " ", "|", "|", "c", "|", "d", "|", "e">>}

NormLineSet == {<<>>,
                <<"@", "R", ":", " ", "k", " ">>,
                <<"@", "B", ":", "k">>,
                HEREDOC_OPEN,
                <<" ", ">", ">">>,
                <<" ", "x", " ">>}

NormTextSet ==
    {JoinLines(<<FORMAT_HEADER, m, SECTION_SEPARATOR>> \o b) :
        m \in NormLine2Set, b \in SeqsUpTo(NormLineSet, MaxNormBody)}

InitNormalise ==
    /\ text \in NormTextSet
    /\ done = {}
    /\ parse_result = ParseOk(NoDocument)
    /\ issues = <<>>
    /\ doc = NoDocument
    /\ custom = <<>>
    /\ decoded = DecodeOk(<<>>)
    /\ english = <<>>
    /\ opts = NoOptions
    /\ tables = LoadedTables
    /\ args = NoSection

ParseText ==
    /\ done = {}
    /\ parse_result' = parse(text)
    /\ done' = {"parse"}
    /\ UNCHANGED <<args, text, issues, doc, custom, decoded, english, opts, tables>>

(* format_document(parse(text)): doc keeps the Document parse returned *)
Normalise ==
    /\ done = {"parse"}
    /\ parse_result.ok
    /\ doc' = parse_result.doc
    /\ text' = format_document(parse_result.doc)
    /\ done' = {"parse", "format"}
    /\ UNCHANGED <<args, parse_result, issues, custom, decoded, english, opts, tables>>

ParseNormalised ==
    /\ "format" \in done
    /\ "reparse" \notin done
    /\ parse_result' = parse(text)
    /\ done' = done \cup {"reparse"}
    /\ UNCHANGED <<args, text, issues, doc, custom, decoded, english, opts, tables>>

ValidateNormalised ==
    /\ "format" \in done
    /\ "validate" \notin done
    /\ issues' = validate(text)
    /\ done' = done \cup {"validate"}
    /\ UNCHANGED <<args, text, parse_result, doc, custom, decoded, english, opts, tables>>

NextNormalise == ParseText \/ Normalise \/ ParseNormalised \/ ValidateNormalised

SpecNormalise == InitNormalise /\ [][NextNormalise]_vars

(***************************************************************************)
(* Calls of _extract_path_aliases on a text of path references             *)
(***************************************************************************)
MaxMentions == 6

(* a directory of 26 characters *)
LongDir == <<"/", "a", "a", "a", "a", "a", "a", "a", "a", "a", "a", "a", "a", "a", "a", "a", "a", "a", "a", "a", "a", "a", "a", "a", "a", "a">>

(* three paths of 30 and 31 characters, two of them with the same last     *)
(* segment, and a short path                                               *)
PathSet ==
    {LongDir \o <<"/", "b", "/", "x">>,
     LongDir \o <<"/", "c", "/", "x", "2">>,
     LongDir \o <<"/", "d", "/", "x">>,
     <<"/", "a", "/", "x">>}

InitAliases ==
    /\ english \in {JoinLines(ps) : ps \in SeqsUpTo(PathSet, MaxMentions)}
    /\ args = NoSection
    /\ custom = <<>>
    /\ tables = LoadedTables
    /\ opts = NoOptions
    /\ text = <<>>
    /\ done = {}
    /\ parse_result = ParseOk(NoDocument)
    /\ issues = <<>>
    /\ doc = NoDocument
    /\ decoded = DecodeOk(<<>>)

(* custom holds the {path: alias} dict the function returns *)
ExtractPathAliases ==
    /\ done = {}
    /\ custom' = extract_path_aliases(english)
    /\ done' = {"extract_path_aliases"}
    /\ UNCHANGED <<args, text, parse_result, issues, doc, decoded, english, opts, tables>>

(* encoder.py line 66: the lines of the @C:paths block *)
ConstLines ==
    /\ done = {"extract_path_aliases"}
    /\ doc' = CPFDocument(VERSION, NoMetadata,
                          IF custom = <<>> THEN <<>>
                          ELSE <<Block("C", <<"p", "a", "t", "h", "s">>,
                                       const_lines(custom), FALSE)>>)
    /\ done' = done \cup {"const_lines"}
    /\ UNCHANGED <<args, text, parse_result, issues, custom, decoded, english, opts, tables>>

NextAliases == ExtractPathAliases \/ ConstLines

SpecAliases == InitAliases /\ [][NextAliases]_vars

(***************************************************************************)
(* Vocabulary of the properties, stated on the lines of the input text     *)
(* (1-indexed, as ParseError and ValidationError report them).             *)
(***************************************************************************)
InputLines == SplitLines(text)

(* '@<one uppercase letter>:<non-empty text>' *)
HeaderShaped(l) == Len(l) >= 4 /\ l[1] = "@" /\ l[2] \in UPPER /\ l[3] = ":"

IdOf(l) == Strip(SubSeq(l, 4, Len(l)))

PipeCount(l) == Cardinality({k \in 1..Len(l) : l[k] = "|"})

PrefixText(lines, n) == JoinLines(SubSeq(lines, 1, n))

(* scanning for a block header arrives at line h: everything before it parses *)
Reached(lines, h) == h >= 4 /\ h <= Len(lines) /\ parse(PrefixText(lines, h - 1)).ok

OpenAfter(lines, h) == h + 1 <= Len(lines) /\ Strip(lines[h + 1]) = HEREDOC_OPEN

ClosesAfter(lines, h) == {c \in (h + 2)..Len(lines) : Strip(lines[c]) = HEREDOC_CLOSE}

BlobHeader(l) == HeaderShaped(l) /\ l[2] = "B"

(* the lines after the anchors that lie outside every heredoc *)
RECURSIVE TopFrom(_, _, _)
TopFrom(lines, h, acc) ==
    IF h > Len(lines) THEN acc
    ELSE IF BlobHeader(Strip(lines[h])) /\ OpenAfter(lines, h)
    THEN IF ClosesAfter(lines, h) = {} THEN acc \cup {h}
         ELSE TopFrom(lines, Min(ClosesAfter(lines, h)) + 1, acc \cup {h})
    ELSE TopFrom(lines, h + 1, acc \cup {h})

TopLines(lines) == TopFrom(lines, 4, {})

TopHeaders(lines) == {h \in TopLines(lines) : HeaderShaped(Strip(lines[h]))}

(* validate gets as far as the block scan *)
ScanEntered(lines) == Len(lines) >= 3 /\ Strip(lines[1]) = FORMAT_HEADER

IssuesAt(h, severity) ==
    {k \in 1..Len(issues) : issues[k].line = h /\ issues[k].severity = severity}

HasIssue(e) == \E k \in 1..Len(issues) : issues[k] = e

(***************************************************************************)
(* C3: parse checks the three anchor lines in order and raises ParseError  *)
(* with the 1-indexed number of the first failing anchor (1: no lines or   *)
(* wrong format header; 2: line 2 absent, without the 'M|' prefix or with  *)
(* fewer than 4 fields; 3: line 3 absent or not '---'); with three good    *)
(* anchors and no block header after them it returns an empty block list.  *)
(***************************************************************************)
FirstBadAnchor(lines) ==
    IF lines = <<>> \/ Strip(lines[1]) # FORMAT_HEADER THEN 1
    ELSE IF \/ Len(lines) < 2
            \/ ~StartsWith(Strip(lines[2]), METADATA_PREFIX)
            \/ PipeCount(Strip(lines[2])) < 4
    THEN 2
    ELSE IF Len(lines) < 3 \/ Strip(lines[3]) # SECTION_SEPARATOR THEN 3
    ELSE 0

C3_AnchorErrors ==
    "parse" \in done =>
        LET lines == InputLines
            n == FirstBadAnchor(lines)
        IN  /\ n # 0 => ~parse_result.ok /\ parse_result.line_num = n
            /\ (n = 0 /\ \A h \in 4..Len(lines) : ~HeaderShaped(Strip(lines[h])))
                   => parse_result.ok /\ parse_result.doc.blocks = <<>>

C3_Witness ==
    /\ "parse" \in done
    /\ Len(InputLines) >= 3
    /\ StartsWith(Strip(InputLines[2]), METADATA_PREFIX)
    /\ PipeCount(Strip(InputLines[2])) < 4
    /\ ~parse_result.ok
    /\ parse_result.line_num = 2

(***************************************************************************)
(* C4: whenever header scanning arrives at a line shaped like a block      *)
(* header whose letter is not one of the nine sigils (as first header or   *)
(* as the line ending a non-blob block's content), parse raises ParseError *)
(* on that line, naming the sigil, and returns no Document.                *)
(***************************************************************************)
C4_UnknownSigil ==
    "parse" \in done =>
        \A h \in 4..Len(InputLines) :
            LET l == Strip(InputLines[h])
            IN  (HeaderShaped(l) /\ l[2] \notin SIGILS /\ Reached(InputLines, h))
                    => parse_result = ParseError(h, "Unknown sigil", l[2])

C4_Witness ==
    /\ "parse" \in done
    /\ Len(InputLines) >= 6
    /\ Reached(InputLines, 6)
    /\ HeaderShaped(Strip(InputLines[4])) /\ Strip(InputLines[4])[2] = "R"
    /\ ~HeaderShaped(Strip(InputLines[5])) /\ Strip(InputLines[5]) # <<>>
    /\ HeaderShaped(Strip(InputLines[6])) /\ Strip(InputLines[6])[2] \notin SIGILS
    /\ ~parse_result.ok
    /\ parse_result.line_num = 6

(***************************************************************************)
(* C5: for a blob header on line h that header scanning arrives at: no     *)
(* '<<' on line h+1 raises ParseError; '<<' without a later '>>' raises    *)
(* ParseError on line h+1; otherwise the block's content is the lines      *)
(* strictly between the open marker and the first following '>>', in       *)
(* order, and scanning resumes on the line after that '>>'.                *)
(* C5_Original takes the content lines exactly as they stand in the text;  *)
(* C5_Heredoc takes each of them with its trailing whitespace removed.     *)
(***************************************************************************)
Verbatim(l) == l

BlobAt(lines, h, Keep(_)) ==
    LET l == Strip(lines[h])
        c == Min(ClosesAfter(lines, h))
        content == [k \in 1..(c - h - 2) |-> Keep(lines[h + 1 + k])]
        before == parse(PrefixText(lines, h - 1)).doc.blocks
        rest == parse(JoinLines(SubSeq(lines, 1, 3) \o SubSeq(lines, c + 1, Len(lines))))
    IN  IF ~OpenAfter(lines, h)
        THEN ~parse_result.ok /\ parse_result.message = "Expected heredoc open"
        ELSE IF ClosesAfter(lines, h) = {}
        THEN parse_result = ParseError(h + 1, "Unclosed heredoc block", "")
        ELSE IF rest.ok
        THEN /\ parse_result.ok
             /\ parse_result.doc.blocks =
                    before \o <<Block("B", IdOf(l), content, TRUE)>> \o rest.doc.blocks
        ELSE /\ ~parse_result.ok
             /\ parse_result.line_num = rest.line_num + (c - 3)
             /\ parse_result.message = rest.message

C5_Original ==
    "parse" \in done =>
        \A h \in 4..Len(InputLines) :
            (BlobHeader(Strip(InputLines[h])) /\ Reached(InputLines, h))
                => BlobAt(InputLines, h, Verbatim)

C5_Heredoc ==
    "parse" \in done =>
        \A h \in 4..Len(InputLines) :
            (BlobHeader(Strip(InputLines[h])) /\ Reached(InputLines, h))
                => BlobAt(InputLines, h, RStrip)

C5_Witness ==
    /\ "parse" \in done
    /\ Len(InputLines) = 7
    /\ BlobHeader(Strip(InputLines[4]))
    /\ OpenAfter(InputLines, 4)
    /\ InputLines[6] # RStrip(InputLines[6])
    /\ Strip(InputLines[7]) = HEREDOC_CLOSE
    /\ parse_result.ok
    /\ Len(parse_result.doc.blocks) = 1
    /\ parse_result.doc.blocks[1].lines = <<RStrip(InputLines[6])>>

(***************************************************************************)
(* C7: the validator accepts exactly what the parser accepts: validate     *)
(* reports an error-severity issue if and only if parse raises ParseError. *)
(***************************************************************************)
C7_ValidIffParses ==
    done = {"parse", "validate"} => (is_valid(issues) <=> parse_result.ok)

C7_Witness ==
    /\ done = {"parse", "validate"}
    /\ parse_result.ok
    /\ Len(parse_result.doc.blocks) = 2
    /\ issues # <<>>
    /\ is_valid(issues)

(***************************************************************************)
(* C8: once validate scans the blocks, a block header outside heredoc      *)
(* content whose id already appeared on an earlier such header gets        *)
(* exactly one warning on its line, other lines get none, the duplicate    *)
(* issue is never an error, and k headers sharing an id give k-1 warnings. *)
(***************************************************************************)
Repeated(lines, top) ==
    {h \in top : \E g \in top : g < h /\ IdOf(Strip(lines[g])) = IdOf(Strip(lines[h]))}

RepeatedHeaders(lines) == Repeated(lines, TopHeaders(lines))

EmptyIdHeader(l) == Len(l) = 3 /\ l[1] = "@" /\ l[2] \in SIGILS /\ l[3] = ":"

C9_EmptyIdIsError ==
    ("validate" \in done /\ ScanEntered(InputLines)) =>
        \A h \in TopLines(InputLines) :
            EmptyIdHeader(Strip(InputLines[h]))
                => IssuesAt(h, "error") # {} /\ ~is_valid(issues)

(***************************************************************************)
(* C10: validate returns exactly one issue, an error on line 1, for empty  *)
(* input or a wrong line 1; it returns without scanning when line 2 or 3   *)
(* is absent; otherwise it scans to the end of the input whatever the      *)
(* metadata and separator lines look like: every unknown-sigil header,     *)
(* every blob header without '<<' and an unclosed heredoc are reported.    *)
(***************************************************************************)
GoodAnchors == <<FORMAT_HEADER, GoodLine2, SECTION_SEPARATOR>>

BodyIssues(errs) == SelectSeq(errs, LAMBDA e : e.line >= 4)

C10_ScanToEnd ==
    "validate" \in done =>
        LET lines == InputLines
        IN  IF lines = <<>> \/ Strip(lines[1]) # FORMAT_HEADER
            THEN /\ Len(issues) = 1
                 /\ issues[1].line = 1
                 /\ issues[1].severity = "error"
            ELSE IF Len(lines) < 3
            THEN /\ issues # <<>>
                 /\ issues[Len(issues)].line = Len(lines) + 1
                 /\ issues[Len(issues)].severity = "error"
                 /\ \A k \in 1..Len(issues) : issues[k].line <= 3
            ELSE /\ BodyIssues(issues) =
                        validate(JoinLines(GoodAnchors \o SubSeq(lines, 4, Len(lines))))
                 /\ \A h \in TopHeaders(lines) :
                        LET l == Strip(lines[h])
                        IN  /\ l[2] \notin SIGILS =>
                                   HasIssue(ValidationError(h, "Unknown sigil", l[2], "error"))
                            /\ (l[2] = "B" /\ ~OpenAfter(lines, h)) =>
                                   HasIssue(ValidationError(h,
                                       "@B block must be followed by heredoc open", "", "error"))
                            /\ (l[2] = "B" /\ OpenAfter(lines, h)
                                          /\ ClosesAfter(lines, h) = {}) =>
                                   HasIssue(ValidationError(h + 1,
                                       "Unclosed heredoc block", "", "error"))

C10_Witness ==
    /\ "validate" \in done
    /\ Len(InputLines) >= 5
    /\ Strip(InputLines[1]) = FORMAT_HEADER
    /\ ~StartsWith(Strip(InputLines[2]), METADATA_PREFIX)
    /\ Strip(InputLines[3]) # SECTION_SEPARATOR
    /\ Cardinality({k \in 1..Len(issues) :
                       issues[k].line >= 4 /\ issues[k].severity = "error"}) >= 2

(***************************************************************************)
(* C1: for every Document whose blocks have a non-empty id and one of the  *)
(* nine sigils (is_heredoc exactly on blobs), parse(format_document(d))    *)
(* succeeds and gives the same metadata, the same blocks in the same       *)
(* order, and per block the same sigil, id, is_heredoc flag and content    *)
(* lines up to trailing whitespace.                                        *)
(***************************************************************************)
SameLines(a, b) ==
    Len(a) = Len(b) /\ \A k \in 1..Len(a) : RStrip(a[k]) = RStrip(b[k])

SameBlock(a, b) ==
    /\ a.sigil = b.sigil
    /\ a.block_id = b.block_id
    /\ a.is_heredoc = b.is_heredoc
    /\ SameLines(a.lines, b.lines)

C1_ParseInvertsFormat ==
    {"format", "parse"} \subseteq done =>
        /\ parse_result.ok
        /\ parse_result.doc.metadata = doc.metadata
        /\ Len(parse_result.doc.blocks) = Len(doc.blocks)
        /\ \A k \in 1..Len(doc.blocks) : SameBlock(parse_result.doc.blocks[k], doc.blocks[k])

(***************************************************************************)
(* C6: decode_ast emits every content line of a heredoc (blob) block       *)
(* unchanged and in order after that block's '## ' header (at most one     *)
(* blank line in between): nothing is expanded, prefixed or capitalized    *)
(* and no content line, blank lines at the end of the blob included, is    *)
(* dropped, also when the blob is the last block.                          *)
(***************************************************************************)
EmitsVerbatim(out, b) ==
    \E p \in 1..Len(out) :
        /\ out[p] = <<"#", "#", " ">> \o block_header(b)
        /\ \E gap \in {0, 1} :
              /\ p + gap + Len(b.lines) <= Len(out)
              /\ gap = 1 => (b.lines = <<>> \/ out[p + 1] = <<>>)
              /\ \A j \in 1..Len(b.lines) : out[p + gap + j] = b.lines[j]

C6_BlobVerbatim ==
    "decode_ast" \in done =>
        \A k \in 1..Len(doc.blocks) :
            doc.blocks[k].is_heredoc => EmitsVerbatim(SplitLines(decoded.out), doc.blocks[k])

(* C2: whatever markdown text, doc_id, title, source and custom            *)
(* abbreviations encode is given, validate reports no issue of severity    *)
(* "error" on the CPF text it returns.                                     *)
C2_EncodeValidates ==
    ("encode" \in done /\ "validate" \in done) =>
        is_valid(issues)

(* C11: the text format_document returns ends with exactly one newline:    *)
(* its last character is a newline and the one before it is not.           *)
C11_OneTrailingNewline ==
    "format" \in done =>
        /\ Len(text) >= 1
        /\ text[Len(text)] = NL
        /\ Len(text) >= 2 => text[Len(text) - 1] # NL

(* the first line from i on that is shaped like a block header, Len + 1 when
   there is none *)
NextHeader(lines, i) ==
    Min({j \in i..(Len(lines) + 1) : j > Len(lines) \/ BlockMatch(Strip(lines[j]))})

(* the lines from i on that are no block header and lie outside every block,
   as far as the scan gets: it ends where parse raises *)
RECURSIVE OrphansFrom(_, _, _)
OrphansFrom(lines, i, acc) ==
    IF i > Len(lines) THEN acc
    ELSE IF ~BlockMatch(Strip(lines[i])) THEN OrphansFrom(lines, i + 1, acc \cup {i})
    ELSE IF BlockSigil(Strip(lines[i])) \notin SIGILS THEN acc
    ELSE IF BlockSigil(Strip(lines[i])) # "B"
    THEN OrphansFrom(lines, NextHeader(lines, i + 1), acc)
    ELSE IF OpenAfter(lines, i) /\ ClosesAfter(lines, i) # {}
    THEN OrphansFrom(lines, Min(ClosesAfter(lines, i)) + 1, acc)
    ELSE acc

Orphans(lines) == OrphansFrom(lines, 4, {})

Without(lines, gone) ==
    LET kept == SelectSeq(SeqOf([k \in 1..Len(lines) |-> k]), LAMBDA k : k \notin gone)
    IN  SeqOf([k \in 1..Len(kept) |-> lines[kept[k]]])

AnchorsParse(lines) == Len(lines) >= 3 /\ parse(PrefixText(lines, 3)).ok

(* C12: after valid anchor lines, lines that are no block header and lie   *)
(* outside every block are skipped silently: with any of them deleted      *)
(* parse returns the same Document, and raises the same ParseError (its    *)
(* line number moved up by the deleted lines before it) when it raises.    *)
C12_OrphansSkipped ==
    ("parse" \in done /\ AnchorsParse(InputLines)) =>
        \A gone \in SUBSET Orphans(InputLines) :
            LET other == parse(JoinLines(Without(InputLines, gone)))
                moved == Cardinality({g \in gone : g < parse_result.line_num})
            IN  /\ other.ok = parse_result.ok
                /\ other.doc = parse_result.doc
                /\ other.message = parse_result.message
                /\ other.arg = parse_result.arg
                /\ other.line_num = parse_result.line_num - moved

(* a text that parses into one blob block, with a line of content after   *)
(* the blob's close marker                                                 *)
C12_Witness ==
    /\ "parse" \in done
    /\ AnchorsParse(InputLines)
    /\ parse_result.ok
    /\ Len(parse_result.doc.blocks) = 1
    /\ parse_result.doc.blocks[1].is_heredoc
    /\ \E c \in 5..Len(InputLines) :
          /\ Strip(InputLines[c]) = HEREDOC_CLOSE
          /\ c + 1 \in Orphans(InputLines)
          /\ Strip(InputLines[c + 1]) # <<>>

(* the lines collected for the non-blob header on line h: from the line
   after it up to the next header-shaped line or the end of the input *)
Collected(lines, h) == SubSeq(lines, h + 1, NextHeader(lines, h + 1) - 1)

(* blank lines before the first and after the last non-blank line removed,
   every line in between right-trimmed *)
Trimmed(seg) ==
    LET full == {j \in 1..Len(seg) : Strip(seg[j]) # <<>>}
    IN  IF full = {} THEN <<>>
        ELSE SeqOf([j \in 1..(Max(full) - Min(full) + 1) |-> RStrip(seg[Min(full) + j - 1])])

(* C13: for a non-blob block parse collects the lines from the header up   *)
(* to the next block-header line or the end of input, drops the blank      *)
(* lines before the first and after the last non-blank line, keeps the     *)
(* blank lines in between in place and right-trims each kept line.         *)
C13_NonBlobContent ==
    ("parse" \in done /\ parse_result.ok) =>
        LET lines == InputLines
            heads == TopHeaders(lines)
            blocks == parse_result.doc.blocks
        IN  /\ Len(blocks) = Cardinality(heads)
            /\ \A h \in heads :
                  LET b == blocks[Cardinality({g \in heads : g <= h})]
                  IN  ~b.is_heredoc => b.lines = Trimmed(Collected(lines, h))

(* a block with a blank line kept between two lines of content, which keep *)
(* their leading whitespace                                                *)
C13_Witness ==
    /\ "parse" \in done
    /\ parse_result.ok
    /\ \E k \in 1..Len(parse_result.doc.blocks) :
          /\ ~parse_result.doc.blocks[k].is_heredoc
          /\ parse_result.doc.blocks[k].lines = <<(<<" ", "x">>), <<>>, <<" ", "x">>>>

(* the blob headers outside heredocs whose heredoc is opened and closed *)
ClosedBlobs(lines) ==
    {h \in TopLines(lines) :
        BlobHeader(Strip(lines[h])) /\ OpenAfter(lines, h) /\ ClosesAfter(lines, h) # {}}

(* the lines between the open marker of such a blob and its close marker *)
Interior(lines) ==
    {j \in 1..Len(lines) :
        \E h \in ClosedBlobs(lines) : h + 1 < j /\ j < Min(ClosesAfter(lines, h))}

(* the same text with plain words on the lines inside the heredocs *)
PlainInside(lines) ==
    SeqOf([j \in 1..Len(lines) |-> IF j \in Interior(lines) THEN <<"w">> ELSE lines[j]])

SameButBlobLines(b1, b2) ==
    /\ b1.sigil = b2.sigil
    /\ b1.block_id = b2.block_id
    /\ b1.is_heredoc = b2.is_heredoc
    /\ ~b1.is_heredoc => b1.lines = b2.lines

(* C14: the lines between a blob's '<<' and the first '>>' after it are    *)
(* not interpreted by parse or validate: whatever stands there (a header,  *)
(* also with an unknown sigil or a used id, a '<<', a blank line), parse   *)
(* and validate do what they do with plain words there, and each of the    *)
(* lines is content of that blob at its position.                          *)
C14_BlobInterior ==
    LET lines == InputLines
        plain == JoinLines(PlainInside(lines))
    IN  /\ "validate" \in done => issues = validate(plain)
        /\ "parse" \in done =>
              LET other == parse(plain)
                  blocks == parse_result.doc.blocks
                  heads == TopHeaders(lines)
              IN  /\ other.ok = parse_result.ok
                  /\ other.line_num = parse_result.line_num
                  /\ other.message = parse_result.message
                  /\ other.arg = parse_result.arg
                  /\ Len(other.doc.blocks) = Len(blocks)
                  /\ \A k \in 1..Len(blocks) : SameButBlobLines(blocks[k], other.doc.blocks[k])
                  /\ parse_result.ok =>
                        \A h \in ClosedBlobs(lines) :
                            LET b == blocks[Cardinality({g \in heads : g <= h})]
                                c == Min(ClosesAfter(lines, h))
                            IN  /\ b.is_heredoc
                                /\ Len(b.lines) = c - h - 2
                                /\ \A j \in (h + 2)..(c - 1) :
                                      b.lines[j - h - 1] = RStrip(lines[j])

(* a blob that holds a header with an unknown sigil: parse returns it as   *)
(* content and validate reports nothing                                    *)
C14_Witness ==
    /\ done = {"parse", "validate"}
    /\ parse_result.ok
    /\ issues = <<>>
    /\ \E j \in Interior(InputLines) :
          /\ HeaderShaped(Strip(InputLines[j]))
          /\ Strip(InputLines[j])[2] \notin SIGILS

(* C15: after the import every abbreviation of the built-in encode table   *)
(* is a key of the built-in decode table, the decode table has no other    *)
(* key, and it maps each abbreviation to the first full phrase of the      *)
(* encode table, in insertion order, that has it.                          *)
C15_DecodeTable ==
    "import" \in done =>
        LET enc == tables.ENCODE_MAP
            dec == tables.DECODE_MAP
            abbrs == {enc[k][2] : k \in 1..Len(enc)}
        IN  /\ \A k \in 1..Len(enc) : enc[k][2] \in DictKeys(dec)
            /\ DictKeys(dec) = abbrs
            /\ Len(dec) = Cardinality(abbrs)
            /\ \A k \in 1..Len(dec) :
                  dec[k][2] = enc[Min({j \in 1..Len(enc) : enc[j][2] = dec[k][1]})][1]

(* two phrases of the encode table share an abbreviation and the decode    *)
(* table holds the first of them                                           *)
C15_Witness ==
    /\ "import" \in done
    /\ \E j, k \in 1..Len(tables.ENCODE_MAP) :
          /\ j < k
          /\ tables.ENCODE_MAP[j][2] = tables.ENCODE_MAP[k][2]
          /\ DictGet(tables.DECODE_MAP, tables.ENCODE_MAP[k][2], <<>>) = tables.ENCODE_MAP[j][1]

(* a merged table gives the custom value on every key it shares with the base *)
CustomWins(merged, base, custom_table) ==
    \A key \in DictKeys(base) \cap DictKeys(custom_table) :
        DictGet(merged, key, <<>>) = DictGet(custom_table, key, <<>>)

(* C16: once the module is imported, no call of encode, decode_ast,        *)
(* compress_line, expand_line, abbreviate, expand or merge_abbreviations   *)
(* changes the built-in ENCODE_MAP and DECODE_MAP, the caller's custom     *)
(* tables or the Document, and the tables merge_abbreviations returns give *)
(* the custom value on every key present in both.                          *)
C16_TablesKept ==
    [][ "import" \in done =>
            /\ tables'.ENCODE_MAP = tables.ENCODE_MAP
            /\ tables'.DECODE_MAP = tables.DECODE_MAP
            /\ tables'.custom_encode = tables.custom_encode
            /\ tables'.custom_decode = tables.custom_decode
            /\ doc' = doc
            /\ "merge_abbreviations" \in done' =>
                  /\ CustomWins(tables'.merged_encode, tables'.ENCODE_MAP,
                                tables'.custom_encode)
                  /\ CustomWins(tables'.merged_decode, tables'.DECODE_MAP,
                                tables'.custom_decode) ]_vars

(* encode, decode_ast of a Document with a constant block, and             *)
(* merge_abbreviations have been called with custom tables whose keys are  *)
(* keys of the built-in tables                                             *)
C16_Witness ==
    /\ {"encode", "decode_ast", "merge_abbreviations"} \subseteq done
    /\ get_constants(doc) # <<>>
    /\ DictKeys(tables.custom_encode) \cap DictKeys(tables.ENCODE_MAP) # {}
    /\ DictKeys(tables.custom_decode) \cap DictKeys(tables.DECODE_MAP) # {}
    /\ DictKeys(get_constants(doc)) \cap DictKeys(tables.DECODE_MAP) # {}
    /\ tables.merged_encode # tables.ENCODE_MAP
    /\ tables.abbrevs # <<>>

(* C17: encode is referentially transparent: a second call with the same   *)
(* text, doc_id, title, source and custom table returns the text the first *)
(* call returned, whatever time passed between the two.                    *)
C17_EncodeTransparent == [][("encode" \in done /\ Encode) => text' = text]_vars

(* the keyword families of the header in the order they are looked for *)
HeaderFamilies ==
    << <<"Z", ZONE_HEADERS>>, <<"T", TONE_HEADERS>>, <<"P", PRIORITY_HEADERS>>,
       <<"S", SEQUENCE_HEADERS>>, <<"N", NEGATION_HEADERS>> >>

MatchingFamilies(header) ==
    {k \in 1..Len(HeaderFamilies) : SearchAny(LowerStr(header), HeaderFamilies[k][2])}

(* t, n and m of the content: non-blank lines, negation lines, numbered lines *)
NonBlank(lines) == {k \in 1..Len(lines) : Strip(lines[k]) # <<>>}

NegationLines(lines) == {k \in 1..Len(lines) : NEGATION_LINE_RE(Strip(lines[k])).ok}

NumberedLines(lines) == {k \in 1..Len(lines) : NUMBERED_RE(Strip(lines[k])).ok}

ContentSigil(lines) ==
    LET t == Cardinality(NonBlank(lines))
        n == Cardinality(NegationLines(lines))
        m == Cardinality(NumberedLines(lines))
    IN  IF t = 0 THEN "R"
        ELSE IF 10 * n > 6 * t THEN "N"
        ELSE IF 10 * m > 6 * t THEN "P"
        ELSE IF 10 * m > 4 * t THEN "S"
        ELSE "R"

(* C18: when the header matches one or more keyword families,              *)
(* classify_section returns the sigil of the first matching family in the  *)
(* order zone, tone, priority, sequence, negation, and returns it whatever *)
(* the content lines are.                                                  *)
C18_HeaderFirst ==
    ("classify_section" \in done /\ MatchingFamilies(args.header) # {}) =>
        LET sigil == HeaderFamilies[Min(MatchingFamilies(args.header))][1]
        IN  /\ text = <<sigil>>
            /\ \A ls \in SeqsUpTo(SectionLineSet, 2) :
                   classify_section(args.header, ls) = sigil

(* a header of two families, the later one first in the header, over       *)
(* content that alone is a negation block                                  *)
C18_Witness ==
    /\ "classify_section" \in done
    /\ MatchingFamilies(args.header) = {1, 5}
    /\ ContentSigil(args.lines) = "N"
    /\ text = <<"Z">>

(* C19: when the header matches no keyword family, classify_section        *)
(* returns R if there is no non-blank line, else N if n/t > 0.6, else P if *)
(* m/t > 0.6, else S if m/t > 0.4, else R; exactly 60% negation lines is   *)
(* not N, exactly 40% numbered lines is R, and the result is one of N, P,  *)
(* S, R.                                                                   *)
C19_ContentThresholds ==
    ("classify_section" \in done /\ MatchingFamilies(args.header) = {}) =>
        LET t == Cardinality(NonBlank(args.lines))
            n == Cardinality(NegationLines(args.lines))
            m == Cardinality(NumberedLines(args.lines))
        IN  /\ text = <<ContentSigil(args.lines)>>
            /\ text[1] \in {"N", "P", "S", "R"}
            /\ (t > 0 /\ 5 * n = 3 * t) => text # <<"N">>
            /\ (t > 0 /\ 5 * m = 2 * t) => text = <<"R">>

(* three negation lines of five non-blank lines, and a blank line *)
C19_Witness ==
    /\ "classify_section" \in done
    /\ MatchingFamilies(args.header) = {}
    /\ Cardinality(NonBlank(args.lines)) = 5
    /\ Cardinality(NegationLines(args.lines)) = 3
    /\ text # <<"N">>

(* the line as compress_line matches it *)
Prepared(line) == strip_markdown_formatting(strip_bullet_prefix(line))

Introduced(line, keyword) == StartsWith(LowerStr(Prepared(line)), keyword)

(* C20: compress_line turns a conditional line introduced by 'Unless' into *)
(* text that starts with '?!', and one introduced by 'If' or 'When' into   *)
(* text that starts with '?' not followed by '!'.                          *)
C20_UnlessNegated ==
    ("compress_line" \in done /\ CONDITIONAL_RE(Prepared(english)).ok) =>
        /\ Introduced(english, <<"u", "n", "l", "e", "s", "s">>) =>
               StartsWith(text, <<"?", "!">>)
        /\ (\/ Introduced(english, <<"i", "f">>)
            \/ Introduced(english, <<"w", "h", "e", "n">>)) =>
               /\ StartsWith(text, <<"?">>)
               /\ ~StartsWith(text, <<"?", "!">>)

(* the key and the value of a line '**K:** V' behind an optional bullet *)
BoldKey(line) ==
    LET t == strip_bullet_prefix(line)
    IN  SubSeq(t, 3, Find(t, <<":", "*", "*">>) - 1)

BoldValue(line) ==
    LET t == strip_bullet_prefix(line)
    IN  Strip(SubSeq(t, Find(t, <<":", "*", "*">>) + 3, Len(t)))

IsBoldKeyValue(line) ==
    LET t == strip_bullet_prefix(line)
    IN  /\ StartsWith(t, <<"*", "*">>)
        /\ Find(t, <<":", "*", "*">>) > 3
        /\ BoldValue(line) # <<>>

(* C21: compress_line turns a bold key-value line '**K:** V', with or      *)
(* without a bullet marker, into the compressed key, '::' and the          *)
(* compressed value.                                                       *)
C21_BoldKeyValue ==
    ("compress_line" \in done /\ IsBoldKeyValue(english)) =>
        text = compress_fragment(BoldKey(english), ENCODE_MAP) \o <<":", ":">>
               \o compress_fragment(BoldValue(english), ENCODE_MAP)

EndsWith(s, p) == Len(s) >= Len(p) /\ SubSeq(s, Len(s) - Len(p) + 1, Len(s)) = p

(* the output forms of expand_line *)
IsDefinitionForm(out) ==
    /\ StartsWith(out, <<"-", " ", "*", "*">>)
    /\ Contains(out, <<":", "*", "*", " ">>)
    /\ EndsWith(out, <<".">>)

IsBoldForm(out) ==
    StartsWith(out, <<"-", " ", "*", "*">>) /\ EndsWith(out, <<".", "*", "*">>)

IsDelegateForm(out) ==
    StartsWith(out, <<"-", " ", "S", "e", "e", " ">>) /\ EndsWith(out, <<".">>)

(* C22: expand_line gives '' for a blank line and otherwise the form of    *)
(* the first test that matches, in the order '?!', '?', '!!', '*', '#N ',  *)
(* 'prefer(A)>B', '::' without a leading '@>', '@>', anything else; so a   *)
(* line starting with '@>' is a delegate reference even when it holds '::' *)
(* and a line starting with '?' or '!!' is never a definition.             *)
C22_OneForm ==
    "expand_line" \in done =>
        LET t   == Strip(english)
            out == decoded.out
        IN  /\ IF t = <<>> THEN out = <<>>
               ELSE IF StartsWith(t, <<"?", "!">>)
               THEN StartsWith(out, <<"-", " ", "U", "n", "l", "e", "s", "s", " ">>)
               ELSE IF StartsWith(t, <<"?">>)
               THEN StartsWith(out, <<"-", " ", "I", "f", " ">>)
               ELSE IF StartsWith(t, <<"!", "!">>)
               THEN /\ StartsWith(out, <<"-", " ", "D", "o", " ", "N", "O", "T", " ">>)
                    /\ EndsWith(out, <<".">>)
               ELSE IF StartsWith(t, <<"*">>) THEN IsBoldForm(out)
               ELSE IF PriorityMatch(t)
               THEN StartsWith(out, PriorityNum(t) \o <<".", " ">>)
               ELSE IF PreferMatch(t)
               THEN /\ StartsWith(out, <<"-", " ", "P", "r", "e", "f", "e", "r", " ">>)
                    /\ Contains(out, <<" ", "o", "v", "e", "r", " ">>)
                    /\ EndsWith(out, <<".">>)
               ELSE IF Contains(t, <<":", ":">>) /\ ~StartsWith(t, <<"@", ">">>)
               THEN IsDefinitionForm(out)
               ELSE IF StartsWith(t, <<"@", ">">>) THEN IsDelegateForm(out)
               ELSE /\ out = <<"-", " ">> \o capitalize(expand_fragment(t, tables.DECODE_MAP))
                                \o <<".">>
                    /\ ~IsBoldForm(out) /\ ~IsDefinitionForm(out) /\ ~IsDelegateForm(out)
            /\ StartsWith(t, <<"@", ">">>) => IsDelegateForm(out)
            /\ (StartsWith(t, <<"?">>) \/ StartsWith(t, <<"!", "!">>)) =>
                   ~IsDefinitionForm(out)

(* a delegate line that holds '::' *)
C22_Witness ==
    /\ "expand_line" \in done
    /\ StartsWith(Strip(english), <<"@", ">">>)
    /\ Contains(english, <<":", ":">>)
    /\ IsDelegateForm(decoded.out)
    /\ ~IsDefinitionForm(decoded.out)

(* a conditional line '?...' or '?!...' without its marker, and the parts  *)
(* of it around the first '->'                                             *)
ConditionalBody(line) ==
    LET t == Strip(line)
    IN  IF StartsWith(t, <<"?", "!">>) THEN SubSeq(t, 3, Len(t)) ELSE SubSeq(t, 2, Len(t))

AfterArrow(line) ==
    LET body == ConditionalBody(line)
        arrow == Find(body, <<"-", ">">>)
    IN  IF arrow = 0 THEN <<>> ELSE SubSeq(body, arrow + 2, Len(body))

HasElseBranch(line) ==
    /\ StartsWith(Strip(line), <<"?">>)
    /\ Contains(AfterArrow(line), <<";">>)

ElseBranch(line) ==
    LET after == AfterArrow(line)
    IN  Strip(SubSeq(after, Find(after, <<";">>) + 1, Len(after)))

Otherwise == <<".", " ", "O", "t", "h", "e", "r", "w", "i", "s", "e", ",", " ">>

DoNot == <<".", " ", "D", "o", " ", "N", "O", "T", " ">>

(* C23: for a conditional line whose part after '->' holds ';', the text   *)
(* of expand_line has the condition, ': ', the action up to the first ';'  *)
(* and then 'Do NOT <else>.' when the else-branch starts with '!!' and     *)
(* 'Otherwise, <else>.' in every other case; a ';' that is only before     *)
(* '->' gives no second sentence.                                          *)
C23_ElseBranch ==
    ("expand_line" \in done /\ StartsWith(Strip(english), <<"?">>)) =>
        LET out    == decoded.out
            body   == ConditionalBody(english)
            arrow  == Find(body, <<"-", ">">>)
            after  == AfterArrow(english)
            first  == expand_fragment(SubSeq(body, 1, arrow - 1), tables.DECODE_MAP)
                      \o <<":", " ">>
                      \o expand_fragment(SubSeq(after, 1, Find(after, <<";">>) - 1),
                                         tables.DECODE_MAP)
            E      == ElseBranch(english)
        IN  IF HasElseBranch(english)
            THEN IF StartsWith(E, <<"!", "!">>)
                 THEN EndsWith(out, first \o DoNot
                                    \o expand_fragment(SubSeq(E, 3, Len(E)), tables.DECODE_MAP)
                                    \o <<".">>)
                 ELSE EndsWith(out, first \o Otherwise
                                    \o expand_fragment(E, tables.DECODE_MAP) \o <<".">>)
            ELSE ~Contains(out, Otherwise) /\ ~Contains(out, DoNot)

(* an else-branch that starts with '!!' behind a blank *)
C23_Witness ==
    /\ "expand_line" \in done
    /\ HasElseBranch(english)
    /\ StartsWith(ElseBranch(english), <<"!", "!">>)
    /\ Contains(AfterArrow(english), <<";", " ">>)
    /\ Contains(decoded.out, DoNot)

(* the line without its else-branch: everything before the first ';' that  *)
(* follows '->'                                                            *)
WithoutElse(line) ==
    LET t == Strip(line)
        after == AfterArrow(line)
    IN  SubSeq(t, 1, Len(t) - Len(after) + Find(after, <<";">>) - 1)

(* what is rendered between '- Unless ' and the first ':' *)
RenderedCondition(out) == SubSeq(out, 10, Find(out, <<":">>) - 1)

(* C30: for a negated conditional with an else-branch, '?!C->A;E', the     *)
(* text of expand_line between '- Unless ' and ':' is the text it renders  *)
(* there for '?!C->A'.                                                     *)
C30_SameNegation ==
    ("expand_line" \in done /\ StartsWith(Strip(english), <<"?", "!">>)
     /\ HasElseBranch(english)) =>
        RenderedCondition(decoded.out)
            = RenderedCondition(expand_line(WithoutElse(english), tables.DECODE_MAP, "R"))

(* the parenthesis depth in front of position i, read left to right *)
RECURSIVE DepthBefore(_, _)
DepthBefore(s, i) ==
    IF i <= 1 THEN 0
    ELSE LET depth == DepthBefore(s, i - 1)
         IN  IF s[i - 1] = "(" THEN depth + 1
             ELSE IF s[i - 1] = ")" THEN Max({0, depth - 1})
             ELSE depth

(* the fragment with every operator at depth 0 put into words *)
RECURSIVE WordsUpTo(_, _)
WordsUpTo(s, n) ==
    IF n = 0 THEN <<>>
    ELSE WordsUpTo(s, n - 1)
         \o (IF DepthBefore(s, n) = 0 /\ s[n] = "+" THEN <<" ", "a", "n", "d", " ">>
             ELSE IF DepthBefore(s, n) = 0 /\ s[n] = "|" THEN <<" ", "o", "r", " ">>
             ELSE <<s[n]>>)

(* C27: in fragment expansion every '+' and '|' at parenthesis depth 0     *)
(* becomes ' and ' / ' or ' and every one at a greater depth stays, the    *)
(* depth being counted left to right and never falling below 0: an         *)
(* unmatched ')' does not stop later replacements and an unmatched '('     *)
(* stops them for the rest of the fragment.                                *)
C27_OutsideParens ==
    ("expand_fragment" \in done /\ english \in FragmentSet) =>
        decoded.out = Strip(CollapseSpace(WordsUpTo(english, Len(english))))

(* an operator behind an unmatched ')' and one behind an unmatched '(' *)
C27_Witness ==
    /\ "expand_fragment" \in done
    /\ english = <<")", "+", "(", "|">>
    /\ DepthBefore(english, 2) = 0
    /\ DepthBefore(english, 4) = 1
    /\ decoded.out = <<")", " ", "a", "n", "d", " ", "(", "|">>

(* parse_result is what parse returned for the text as it is now *)
ParsedThisText == done = {"parse"} \/ "reparse" \in done

(* C24: every Document returned by parse has version 'v1', and every block *)
(* has one of the nine sigils, a non-empty id without leading or trailing  *)
(* whitespace, is_heredoc exactly when the sigil is B, and no content line *)
(* with trailing whitespace; a non-blob block has no content line shaped   *)
(* like a block header and its first and last content lines are non-blank; *)
(* a blob has no content line that trimmed is '>>'; the blocks are in the  *)
(* order of their header lines.                                            *)
C24_ParsedDocument ==
    (ParsedThisText /\ parse_result.ok) =>
        LET d     == parse_result.doc
            heads == TopHeaders(InputLines)
        IN  /\ d.version = <<"v", "1">>
            /\ \A k \in 1..Len(d.blocks) :
                   LET b == d.blocks[k]
                   IN  /\ b.sigil \in {"R", "P", "N", "S", "T", "X", "Z", "C", "B"}
                       /\ b.block_id # <<>>
                       /\ ~IsSpace(b.block_id[1])
                       /\ ~IsSpace(b.block_id[Len(b.block_id)])
                       /\ b.is_heredoc <=> b.sigil = "B"
                       /\ \A n \in 1..Len(b.lines) :
                              /\ b.lines[n] = <<>> \/ ~IsSpace(b.lines[n][Len(b.lines[n])])
                              /\ ~b.is_heredoc => ~HeaderShaped(Strip(b.lines[n]))
                              /\ b.is_heredoc => Strip(b.lines[n]) # <<">", ">">>
                       /\ (~b.is_heredoc /\ b.lines # <<>>) =>
                              /\ Strip(b.lines[1]) # <<>>
                              /\ Strip(b.lines[Len(b.lines)]) # <<>>
            /\ Len(d.blocks) = Cardinality(heads)
            /\ \A h \in heads :
                   LET b == d.blocks[Cardinality({g \in heads : g <= h})]
                       l == Strip(InputLines[h])
                   IN  b.sigil = l[2] /\ b.block_id = IdOf(l)

(* the Document of a rule block whose header had blanks around the id and  *)
(* whose content line had blanks around it, behind an orphan line          *)
C24_Witness ==
    /\ done = {"parse"}
    /\ parse_result.ok
    /\ Len(parse_result.doc.blocks) = 1
    /\ parse_result.doc.blocks[1].block_id = <<"k">>
    /\ parse_result.doc.blocks[1].lines = <<<<" ", "x">>>>
    /\ \E h \in TopHeaders(InputLines) :
           h > 4 /\ InputLines[h] = <<"@", "R", ":", " ", "k", " ">>

(* C25: for a text that parse accepts, the formatted Document is accepted  *)
(* by parse again, validate reports no error for it, parse gives the same  *)
(* Document field for field, and formatting that Document gives the same   *)
(* text again.                                                             *)
C25_NormaliseIdempotent ==
    /\ "reparse" \in done =>
           /\ parse_result.ok
           /\ parse_result.doc = doc
           /\ format_document(parse_result.doc) = text
    /\ ("format" \in done /\ "validate" \in done) =>
           \A k \in 1..Len(issues) : issues[k].severity # "error"

(* a text that is not in normal form: blanks around the metadata fields, a *)
(* fifth field, blanks around the blob's content line and its '>>'         *)
C25_Witness ==
    /\ {"reparse", "validate"} \subseteq done
    /\ Len(doc.blocks) = 1
    /\ doc.blocks[1].is_heredoc
    /\ doc.blocks[1].lines = <<<<" ", "x">>>>
    /\ doc.metadata = Metadata(<<"a">>, <<>>, <<"c">>, <<"d">>)
    /\ parse_result.doc = doc

ErrorLines == {issues[k].line : k \in {n \in 1..Len(issues) : issues[n].severity = "error"}}

(* C26: whenever parse raises ParseError with line number L, validate      *)
(* reports an error on line L and no error on a line before L.             *)
C26_SameErrorLine ==
    ({"parse", "validate"} \subseteq done /\ ~parse_result.ok) =>
        /\ parse_result.line_num \in ErrorLines
        /\ \A l \in ErrorLines : l >= parse_result.line_num

(* markdown bullet items that are negation imperatives *)
BulletNegations(lines) ==
    {k \in 1..Len(lines) :
        /\ StartsWith(Strip(lines[k]), <<"-", " ">>)
        /\ NEGATION_LINE_RE(strip_bullet_prefix(lines[k])).ok}

(* a text of one section: a header line of no keyword family, then content *)
(* lines that are no header and hold no path                               *)
OneSection(lines) ==
    /\ Len(lines) >= 2
    /\ extract_section_header(lines[1]).ok
    /\ MatchingFamilies(extract_section_header(lines[1]).g2) = {}
    /\ slugify(extract_section_header(lines[1]).g2) # <<>>
    /\ \A k \in 2..Len(lines) :
           /\ ~extract_section_header(lines[k]).ok
           /\ ~Contains(lines[k], <<"/">>)

(* C28: for a section whose header matches no keyword family and of whose  *)
(* non-blank content lines more than 60% are negation imperatives written  *)
(* as bullet items, none holding a path, encode emits a block of sigil N.  *)
C28_BulletNegations ==
    "encode" \in done =>
        LET lines == SplitLines(english)
        IN  (/\ OneSection(lines)
             /\ 10 * Cardinality(BulletNegations(Tail(lines)))
                    > 6 * Cardinality(NonBlank(Tail(lines)))) =>
                Contains(text, <<NL, "@", "N", ":">>
                               \o slugify(extract_section_header(lines[1]).g2) \o <<NL>>)

(* the paths of the text, one to a line, and the lines that hold a path *)
Mentions == SplitLines(english)

Occurrences(path) == Cardinality({k \in 1..Len(Mentions) : Mentions[k] = path})

(* C29: _extract_path_aliases gives a path an alias if and only if the     *)
(* path has at least 30 characters and occurs at least twice in the text,  *)
(* distinct aliased paths have distinct aliases, and get_constants maps    *)
(* every '$alias' of the @C:paths block back to its own path.              *)
C29_DistinctAliases ==
    /\ "extract_path_aliases" \in done =>
           /\ DictKeys(custom)
                  = {Mentions[k] : k \in {n \in 1..Len(Mentions) :
                                             /\ Len(Mentions[n]) >= 30
                                             /\ Occurrences(Mentions[n]) >= 2}}
           /\ \A j, k \in 1..Len(custom) : j # k => custom[j][2] # custom[k][2]
    /\ "const_lines" \in done =>
           \A k \in 1..Len(custom) :
               DictGet(get_constants(doc), <<"$">> \o custom[k][2], <<>>) = custom[k][1]

====
